---- MODULE Spec2Model ----
(***************************************************************************)
(* Real-time chat widget (class ChatWidget): the socket life cycle, the    *)
(* reconnect back-off, the outbound queue, the typing signal, the file     *)
(* guard and the local chat history.                                       *)
(*                                                                         *)
(* Every browser callback of the class is one action.  A socket is an      *)
(* entry of `sockets`; the handlers the class installs on a socket stay    *)
(* installed after `this.ws` is re-assigned, so every socket of the page   *)
(* delivers its open/close/message events to the one widget object.        *)
(***************************************************************************)
EXTENDS Integers, Sequences, FiniteSets, TLC

\* ---------------------------------------------------------------- bounds
MaxPageSockets == 2   \* sockets of one page in the outbound, file and history runs
MaxMsgs        == 3   \* outbound messages one page submits
MaxUploads     == 2   \* files one page attaches
MaxReads       == 2   \* file reads in flight
MaxRendered    == 1   \* chat bubbles in the message list
MaxLoads       == 1   \* page reloads
MaxSystem      == 1   \* status lines counted in the message list (saturating)
MaxLogged      == 2   \* console lines of the inbound handler
MaxTyped       == 1   \* outbound messages in the inbound-frame runs
MaxRequests    == 3   \* chat requests of one static page
MaxEdits       == 2   \* edits of one designer form
MaxSaves       == 1   \* saves of one designer form
MaxDeletes     == 2   \* DELETE requests of one gallery
MaxClones      == 1   \* clone requests of one gallery
MaxVersionCalls == 2  \* version requests in flight
MaxSnapshots   == 2   \* snapshots saved in one gallery
MaxReverts     == 1   \* reverts in one gallery
MaxABActions   == 2   \* create, start and stop clicks in one manager

\* ------------------------------------------------------ program constants
maxReconnectAttempts == 5
reconnectDelay       == 1000
MaxFileSize          == 10 * 1024 * 1024

\* a page that exhausts its reconnects has created the first socket and one
\* per attempt; the reconnect runs stop there
MaxSockets == maxReconnectAttempts + 1

SessionIds  == {"s1", "s2"}        \* values generateSessionId can return
FieldValues == {"", " ", "a"}      \* empty, whitespace only, with content
FileSizes   == {MaxFileSize - 1, MaxFileSize, MaxFileSize + 1}
Senders     == {"user", "avatar", "bot"}
NoHistory   == [present |-> FALSE, items |-> <<>>]  \* getItem of an absent key: null

VARIABLES
    loaded,            \* a page with a constructed widget exists
    loads,             \* page loads so far (bounds the run)
    sessionId,         \* this.sessionId
    sockets,           \* readyState of every WebSocket the page created
    ws,                \* this.ws: index into sockets, 0 = null
    isConnected,       \* this.isConnected
    reconnectAttempts, \* this.reconnectAttempts
    reconnectTimers,   \* pending setTimeout(connect) callbacks
    messageQueue,      \* this.messageQueue
    isTyping,          \* this.isTyping
    typingTimeout,     \* the idle timer is pending
    field,             \* elements.messageInput.value
    inputDisabled,     \* the four input controls are disabled
    widgetHidden,      \* elements.widget carries class hidden
    messages,          \* .message elements of elements.messages
    systemMessages,    \* .system-message elements (counted, saturating)
    uploadProgress,    \* .upload-progress elements in the list
    uploadProgressElement, \* this.uploadProgressElement is set
    reads,             \* FileReader reads in flight
    storage,           \* localStorage: chat_history_<id> -> saved list
    hung,              \* the page's thread is stuck in a loop
    \* history of the run, read by the properties only
    submitted,         \* outbound messages submitted so far, in order
    sent,              \* frames handed to WebSocket.send, in order
    delays,            \* back-off delays computed since the last open
    closeEvents,       \* close events since the last open
    uploads,           \* files chosen so far, each with the verdict of the guard
    typingIndicator,   \* elements.typingIndicator is shown
    presenceStatus,    \* the status elements.presenceStatus displays
    logged,            \* console lines written by ws.onmessage and the switch
    \* the static chat-widget page (request/response clients)
    client,            \* the script of the page: "simple" or "config"
    page,              \* "none", "loading" (tab opened), "ready" (DOMContentLoaded ran)
    search,            \* window.location.search of the tab
    source,            \* the avatar handed to openPreviewWithConfig (history)
    AVATAR_CONFIG,     \* the decoded configuration, or null
    previewAvatarId,   \* previewAvatarId of the DOMContentLoaded handler, "" = null
    call,              \* position of the running sendMessage call
    staticDisabled,    \* messageInput.disabled and sendBtn.disabled
    staticFocus,       \* messageInput has the focus
    staticStatus,      \* text of #status
    bubbles,           \* .msg elements of #messages
    requests,          \* payloads posted to /api/chat/generate (history)
    outcomes,          \* how each finished sendMessage call ended (history)
    header,            \* name shown by setAvatarHeader
    audio,             \* what the page plays
    \* the avatar designer
    route,             \* "none", "new" or the id of the avatar being edited
    avatarData,        \* the avatarData state of the form
    designerError,     \* the inline error, "" = null
    designerSuccess,   \* the inline success message, "" = null
    newThemeColor,     \* the color picked for the next theme color
    loadPending,       \* the GET of loadAvatar is in flight
    savePending,       \* the POST/PUT of saveAvatar is in flight
    posted,            \* the last payload saveAvatar sent (history)
    lastMerge,         \* input and output of the last withDefaults (history)
    edits,             \* edits made in the form (history)
    saves,             \* requests of saveAvatar (history)
    loading,           \* the loading flag of the form
    effectPending,     \* the id of the route changed, its effect has not run
    dirty,             \* the fields edited since the last load began (history)
    \* the A/B test manager
    abTest,            \* the test whose card is rendered
    winner,            \* the text after "Current Winner:"
    \* the avatar gallery
    avatars,           \* ids of the avatars listed
    avatarsPending,    \* the GET of loadAvatars is in flight
    galleryError,      \* the error banner, "" = null
    operationMessage,  \* the snackbar text, "" = null
    deleteDialog,      \* [open, avatarId] of the delete confirmation
    deleteCalls,       \* DELETE requests in flight, by avatar id
    deleteLog,         \* every DELETE request issued (history)
    cloneCalls,        \* clone requests in flight
    clones,            \* clone requests issued (history)
    versionsDialog,    \* [open, avatarId] of the version history dialog
    versionsMap,       \* avatar id -> its version list, once loaded
    selectedPreview,   \* the version previewed
    saveVersionMessage, \* the message typed for the next snapshot
    versionCalls,      \* version requests in flight
    serverVersions,    \* the versions the backend holds, oldest first
    snapshots,         \* snapshot requests issued (history)
    avatarShown,       \* avatar id -> the configuration its card shows
    revertCalls,       \* revertToVersion invocations under way
    revertLog,         \* outcomes of the invocations that ended (history)
    reverts,           \* revertToVersion invocations (history)
    \* the A/B test manager backed by the server
    tests,             \* the tests listed
    serverTests,       \* the tests the backend holds
    abCalls,           \* requests of the manager in flight
    abError,           \* the error banner, "" = null
    abSuccess,         \* the success banner, "" = null
    abActions          \* create, start and stop clicks (history)

vars == <<loaded, loads, sessionId, sockets, ws, isConnected, reconnectAttempts,
          reconnectTimers, messageQueue, isTyping, typingTimeout, field,
          inputDisabled, widgetHidden, messages, systemMessages, uploadProgress,
          uploadProgressElement, reads, storage, hung, submitted, sent, delays,
          closeEvents, uploads, typingIndicator, presenceStatus, logged,
          client, page, search, source, AVATAR_CONFIG, previewAvatarId, call,
          staticDisabled, staticFocus, staticStatus, bubbles, requests, outcomes,
          header, audio,
          route, avatarData, designerError, designerSuccess, newThemeColor,
          loadPending, savePending, posted, lastMerge, edits, saves,
          loading, effectPending, dirty,
          abTest, winner,
          avatars, avatarsPending, galleryError, operationMessage, deleteDialog,
          deleteCalls, deleteLog, cloneCalls, clones, versionsDialog, versionsMap,
          selectedPreview, saveVersionMessage, versionCalls, serverVersions, snapshots,
          avatarShown, revertCalls, revertLog, reverts,
          tests, serverTests, abCalls, abError, abSuccess, abActions>>

\* the variables of the real-time widget
widgetVars == <<loaded, loads, sessionId, sockets, ws, isConnected, reconnectAttempts,
                reconnectTimers, messageQueue, isTyping, typingTimeout, field,
                inputDisabled, widgetHidden, messages, systemMessages, uploadProgress,
                uploadProgressElement, reads, storage, hung, submitted, sent, delays,
                closeEvents, uploads, typingIndicator, presenceStatus, logged>>

\* the variables of the static chat-widget page
tabVars    == <<client, page, search, source, AVATAR_CONFIG, previewAvatarId>>
chatVars   == <<call, staticDisabled, staticFocus, staticStatus, bubbles, requests,
                outcomes, header, audio>>
staticVars == <<tabVars, chatVars>>

\* the variables of the avatar designer
designerVars == <<route, avatarData, designerError, designerSuccess, newThemeColor,
                  loadPending, savePending, posted, lastMerge, edits, saves,
                  loading, effectPending, dirty>>

\* the variables of the A/B test manager
abVars == <<abTest, winner>>

\* the variables of the avatar gallery: its list, and its version history
listVars == <<avatars, avatarsPending, galleryError, deleteDialog, deleteCalls,
              deleteLog, cloneCalls, clones>>
versionVars == <<versionsDialog, versionsMap, selectedPreview, saveVersionMessage,
                 versionCalls, serverVersions, snapshots>>
revertVars == <<avatarShown, revertCalls, revertLog, reverts>>
galleryVars == <<listVars, versionVars, revertVars, operationMessage>>

\* what a step of one component leaves alone
\* the variables of the server-backed A/B test manager
managerVars == <<tests, serverTests, abCalls, abError, abSuccess, abActions>>

notWidget   == <<staticVars, designerVars, abVars, galleryVars, managerVars>>
notStatic   == <<widgetVars, designerVars, abVars, galleryVars, managerVars>>
notDesigner == <<widgetVars, staticVars, abVars, galleryVars, managerVars>>
notAB       == <<widgetVars, staticVars, designerVars, galleryVars, managerVars>>
notGallery  == <<widgetVars, staticVars, designerVars, abVars, managerVars>>
notManager  == <<widgetVars, staticVars, designerVars, abVars, galleryVars>>

connVars   == <<sockets, ws, isConnected, reconnectAttempts, reconnectTimers,
                delays, closeEvents>>
outVars    == <<messageQueue, submitted, sent>>
typingVars == <<isTyping, typingTimeout, field>>
fileVars   == <<uploadProgress, uploadProgressElement, reads, uploads>>
pageVars   == <<loaded, loads, sessionId>>
frameVars  == <<typingIndicator, presenceStatus, logged>>

\* ------------------------------------------------------------ pure helpers
RECURSIVE Pow2(_)
Pow2(n) == IF n = 0 THEN 1 ELSE 2 * Pow2(n - 1)

\* String.prototype.trim on the modelled field values
Trim(v) == IF v = " " THEN "" ELSE v

\* a back-off that doubles once too often
BackoffDelayDoubled(attempt) == reconnectDelay * Pow2(attempt)

BackoffDelay(attempt) == reconnectDelay * Pow2(attempt - 1)

Message(n, type, size) == [id |-> n, type |-> type, size |-> size]

Frame(m, fromQueue) == [id |-> m.id, type |-> m.type, size |-> m.size, fromQueue |-> fromQueue]

\* showSystemMessage: one more status line in the list
showSystemMessage(n) == IF n < MaxSystem THEN n + 1 ELSE n

\* sendToWebSocket(message): the queue and the frames sent afterwards; `threw`
\* is the TypeError of reading this.ws.readyState when this.ws is null.
sendToWebSocket(conn, w, socks, q, s, m, fromQueue) ==
    IF conn /\ w = 0
    THEN [queue |-> q, sent |-> s, threw |-> TRUE]
    ELSE IF conn /\ socks[w] = "open"
         THEN [queue |-> q, sent |-> Append(s, Frame(m, fromQueue)), threw |-> FALSE]
         ELSE [queue |-> Append(q, m), sent |-> s, threw |-> FALSE]

\* a flush that takes the newest queued message first (pop for shift)
RECURSIVE processMessageQueueNewestFirst(_, _, _, _, _)
processMessageQueueNewestFirst(conn, w, socks, q, s) ==
    IF ~(Len(q) > 0 /\ conn)
    THEN [queue |-> q, sent |-> s, threw |-> FALSE, hung |-> FALSE]
    ELSE LET r == sendToWebSocket(conn, w, socks, SubSeq(q, 1, Len(q) - 1), s, q[Len(q)], TRUE)
         IN  IF r.threw
             THEN [queue |-> r.queue, sent |-> r.sent, threw |-> TRUE, hung |-> FALSE]
             ELSE IF Len(r.queue) >= Len(q)
                  THEN [queue |-> r.queue, sent |-> r.sent, threw |-> FALSE, hung |-> TRUE]
                  ELSE processMessageQueueNewestFirst(conn, w, socks, r.queue, r.sent)

\* processMessageQueue: the while loop.  Neither isConnected nor the socket
\* changes while it runs; an iteration that pushes the message it shifted
\* back leaves the loop condition true for ever (`hung`).
RECURSIVE processMessageQueue(_, _, _, _, _)
processMessageQueue(conn, w, socks, q, s) ==
    IF ~(Len(q) > 0 /\ conn)
    THEN [queue |-> q, sent |-> s, threw |-> FALSE, hung |-> FALSE]
    ELSE LET r == sendToWebSocket(conn, w, socks, Tail(q), s, Head(q), TRUE)
         IN  IF r.threw
             THEN [queue |-> r.queue, sent |-> r.sent, threw |-> TRUE, hung |-> FALSE]
             ELSE IF Len(r.queue) >= Len(q)
                  THEN [queue |-> r.queue, sent |-> r.sent, threw |-> FALSE, hung |-> TRUE]
                  ELSE processMessageQueue(conn, w, socks, r.queue, r.sent)

\* connect(): unless this.ws is an OPEN socket, a new socket replaces it
connect(socks, w, sys) ==
    IF w # 0 /\ socks[w] = "open"
    THEN [sockets |-> socks, ws |-> w, sys |-> sys]
    ELSE [sockets |-> Append(socks, "connecting"), ws |-> Len(socks) + 1,
          sys |-> showSystemMessage(sys)]

\* WebSocket.close(): a socket that is connecting or open starts closing
wsClose(socks, w) ==
    IF w # 0 /\ socks[w] \in {"connecting", "open"}
    THEN [socks EXCEPT ![w] = "closing"]
    ELSE socks

\* formatTimestamp: an ISO time becomes the displayed hh:mm text; any other
\* text is no date
formatTimestamp(t) == IF t = "iso" THEN "hh:mm" ELSE "Invalid Date"

\* showMessage: the .message element appended for `data`
Bubble(data) ==
    [sender |-> data.sender, content |-> data.content,
     timestamp |-> formatTimestamp(data.timestamp)]

\* saveChatHistory: what is written for the rendered list
saveChatHistory(msgs) ==
    [present |-> TRUE,
     items |-> [i \in 1..Len(msgs) |->
        [sender |-> IF msgs[i].sender = "user" THEN "user" ELSE "avatar",
         content |-> msgs[i].content,
         timestamp |-> msgs[i].timestamp]]]

\* loadChatHistory: the elements rendered from a stored value
loadChatHistory(h) ==
    IF ~h.present THEN <<>> ELSE [i \in 1..Len(h.items) |-> Bubble(h.items[i])]

Live == loaded /\ ~hung

\* ------------------------------------------------ avatar objects and codec
\* An object is a function from the keys it has to their values; a key the
\* object lacks is not in its DOMAIN.  Numbers are written as decimal text,
\* strings of free text (the avatar's name) as sequences of code points.
Null == [ok |-> FALSE, value |-> <<>>]

Some(v) == [ok |-> TRUE, value |-> v]

\* JavaScript truthiness of a field value: '' and 0 are falsy
Truthy(v) == v \notin {"", "0"}

\* o[k] || d
Or(o, k, d) == IF k \in DOMAIN o /\ Truthy(o[k]) THEN o[k] ELSE d

VoiceKeys == {"tone", "accent", "speed", "gender", "pitch"}

\* values of the voice fields in the avatars of the runs
VoiceDomain ==
    [tone |-> {"calm"}, accent |-> {"british"}, speed |-> {"2"},
     gender |-> {"male", "female", "neutral"}, pitch |-> {"0", "-3"}]

VoiceValues == UNION {VoiceDomain[k] : k \in VoiceKeys}

\* every voice_characteristics object with any subset of the five fields
VoiceObjects ==
    UNION {{f \in [S -> VoiceValues] : \A k \in S : f[k] \in VoiceDomain[k]} :
           S \in SUBSET VoiceKeys}

\* names: "A", "é", "€A", "AA>", "AA?" (their base64 text has '+' and '/'),
\* and a lone surrogate, which encodeURIComponent refuses
Names == {<<65>>, <<233>>, <<8364, 65>>, <<65, 65, 62>>, <<65, 65, 63>>, <<55296>>}

AvatarBase(n) == ("id" :> "a1") @@ ("name" :> n) @@ ("is_active" :> TRUE)

\* avatars as the backend lists them: a top-level gender and the voice
\* section are optional, and so is each field of the voice section
Avatars ==
    LET plain == {AvatarBase(n) : n \in Names}
        tops  == plain \cup {("gender" :> g) @@ a : a \in plain, g \in {"male", "female"}}
    IN  tops \cup {("voice_characteristics" :> v) @@ a : a \in tops, v \in VoiceObjects}

\* the avatars previewed in the chat runs
PreviewAvatars ==
    {a \in Avatars :
        /\ a.name = <<233>>
        /\ "voice_characteristics" \in DOMAIN a =>
              a.voice_characteristics \in {<<>>, [gender |-> "male"]}
        /\ "gender" \in DOMAIN a => a.gender = "female"}

IsSurrogate(cp) == cp \in 55296..57343

\* the UTF-8 bytes of one code point
Utf8(cp) ==
    IF cp < 128 THEN <<cp>>
    ELSE IF cp < 2048 THEN <<192 + (cp \div 64), 128 + (cp % 64)>>
    ELSE <<224 + (cp \div 4096), 128 + ((cp \div 64) % 64), 128 + (cp % 64)>>

\* unescape(encodeURIComponent(text)): the UTF-8 bytes of the text
RECURSIVE Utf8Bytes(_)
Utf8Bytes(cps) == IF Len(cps) = 0 THEN <<>> ELSE Utf8(Head(cps)) \o Utf8Bytes(Tail(cps))

\* btoa: base64 text as a sequence of digit values 0..63, with 64 for '='
RECURSIVE Btoa(_)
Btoa(b) ==
    IF Len(b) = 0 THEN <<>>
    ELSE IF Len(b) = 1 THEN <<b[1] \div 4, (b[1] % 4) * 16, 64, 64>>
    ELSE IF Len(b) = 2
         THEN <<b[1] \div 4, (b[1] % 4) * 16 + (b[2] \div 16), (b[2] % 16) * 4, 64>>
         ELSE <<b[1] \div 4, (b[1] % 4) * 16 + (b[2] \div 16),
                (b[2] % 16) * 4 + (b[3] \div 64), b[3] % 64>>
              \o Btoa(SubSeq(b, 4, Len(b)))

Plus  == 62     \* '+'
Pad   == 64     \* '='
Space == 99     \* ' '
Esc   == 100    \* a %XX escape of the character c is written Esc + c

\* an encoding that leaves '+', '/' and '=' as they are
EncodeURIComponentRaw(t) == t

\* encodeURIComponent on base64 text: '+', '/' and '=' are escaped
EncodeURIComponent(t) == [i \in 1..Len(t) |-> IF t[i] >= Plus THEN Esc + t[i] ELSE t[i]]

\* URLSearchParams.get: escapes are decoded and a literal '+' reads as a space
QueryDecode(t) ==
    [i \in 1..Len(t) |-> IF t[i] >= Esc THEN t[i] - Esc
                         ELSE IF t[i] = Plus THEN Space ELSE t[i]]

\* decodeURIComponent
DecodeURIComponent(t) == [i \in 1..Len(t) |-> IF t[i] >= Esc THEN t[i] - Esc ELSE t[i]]

\* atob accepts the text: base64 characters only, in groups of four
ValidBase64(t) ==
    /\ Len(t) % 4 = 0
    /\ \A i \in 1..Len(t) : t[i] <= Pad
    /\ \A i \in 1..Len(t) : t[i] = Pad => i > Len(t) - 2

\* atob
RECURSIVE Atob(_)
Atob(t) ==
    IF Len(t) = 0 THEN <<>>
    ELSE LET rest == Atob(SubSeq(t, 5, Len(t)))
         IN  IF t[3] = Pad THEN <<t[1] * 4 + (t[2] \div 16)>> \o rest
             ELSE IF t[4] = Pad
                  THEN <<t[1] * 4 + (t[2] \div 16), (t[2] % 16) * 16 + (t[3] \div 4)>> \o rest
                  ELSE <<t[1] * 4 + (t[2] \div 16), (t[2] % 16) * 16 + (t[3] \div 4),
                         (t[3] % 4) * 64 + t[4]>> \o rest

\* decodeURIComponent(escape(bytes)): the code points of UTF-8 bytes; -1
\* stands for the URIError of a malformed sequence
RECURSIVE Utf8Decode(_)
Utf8Decode(b) ==
    IF Len(b) = 0 THEN <<>>
    ELSE IF b[1] < 128 THEN <<b[1]>> \o Utf8Decode(Tail(b))
    ELSE IF b[1] \in 192..223 /\ Len(b) >= 2 /\ b[2] \in 128..191
         THEN <<(b[1] - 192) * 64 + (b[2] - 128)>> \o Utf8Decode(SubSeq(b, 3, Len(b)))
    ELSE IF b[1] \in 224..239 /\ Len(b) >= 3 /\ b[2] \in 128..191 /\ b[3] \in 128..191
         THEN <<(b[1] - 224) * 4096 + (b[2] - 128) * 64 + (b[3] - 128)>>
              \o Utf8Decode(SubSeq(b, 4, Len(b)))
    ELSE <<-1>>

\* JSON.stringify: the text of an object is its free text (the name) and
\* the rest of its structure, whose characters are ASCII
JsonStringify(obj) ==
    [shape |-> [k \in DOMAIN obj \ {"name"} |-> obj[k]], chars |-> obj.name]

\* JSON.parse
JsonParse(shape, chars) == ("name" :> chars) @@ shape

\* window.location.search of a chat-widget tab
NoSearch == [kind |-> "none", id |-> "", shape |-> <<>>, value |-> <<>>]

ByReference(id) == [kind |-> "avatar_id", id |-> id, shape |-> <<>>, value |-> <<>>]

\* the URL openPreviewWithConfig opens for an avatar
ConfigUrl(avatar) ==
    LET vc == IF "voice_characteristics" \in DOMAIN avatar
              THEN avatar.voice_characteristics ELSE <<>>
        gender == Or(vc, "gender", Or(avatar, "gender", "female"))
        completeAvatar ==
            ("voice_characteristics" :>
                [tone |-> Or(vc, "tone", "warm_friendly"),
                 accent |-> Or(vc, "accent", "neutral_american"),
                 speed |-> Or(vc, "speed", "1"),
                 gender |-> gender,
                 pitch |-> Or(vc, "pitch", "0")]) @@ avatar
        json == JsonStringify(completeAvatar)
    IN  IF \E i \in 1..Len(json.chars) : IsSurrogate(json.chars[i])
        THEN ByReference(avatar.id)
        ELSE [kind |-> "config", id |-> "", shape |-> json.shape,
              value |-> EncodeURIComponent(Btoa(Utf8Bytes(json.chars)))]

\* decodeConfigFromURL
decodeConfigFromURL(s) ==
    IF s.kind # "config" THEN Null
    ELSE LET configParam == QueryDecode(s.value)
             text == DecodeURIComponent(configParam)
         IN  IF Len(configParam) = 0 \/ ~ValidBase64(text) THEN Null
             ELSE LET json == Utf8Decode(Atob(text))
                  IN  IF \E i \in 1..Len(json) : json[i] = -1 THEN Null
                      ELSE Some(JsonParse(s.shape, json))

\* no sendMessage call is running
Idle == [at |-> "idle", avatar |-> ""]

\* URLs typed by hand: no parameter, and a config value that is not base64
TypedUrls ==
    {NoSearch, [kind |-> "config", id |-> "", shape |-> <<>>, value |-> <<16, 16, 16>>]}

\* ---------------------------------------------------- avatar designer
\* defaultAvatarTemplate
defaultAvatarTemplate ==
    [name |-> "",
     visual_appearance |->
        [face |-> [shape |-> "round", skin_tone |-> "#8B7355"],
         clothing |-> [type |-> "business_casual", primary_color |-> "#2C5F8D",
                       secondary_color |-> "#5CA3D5"],
         style |-> [theme |-> "professional", border_radius |-> "12px",
                    background_color |-> "#FFFFFF"]],
     voice_characteristics |->
        [tone |-> "warm_friendly", accent |-> "neutral_american", speed |-> "1",
         gender |-> "female", pitch |-> "0"],
     personality_traits |->
        [formality |-> "professional", empathy |-> "0.8", directness |-> "0.6",
         humor |-> "0.3", enthusiasm |-> "0.7", patience |-> "0.9"],
     animation_behaviors |->
        <<[trigger |-> "greeting", animation |-> "wave_hand"],
          [trigger |-> "thinking", animation |-> "head_tilt"],
          [trigger |-> "empathy", animation |-> "nod_slowly"],
          [trigger |-> "excited", animation |-> "bounce"],
          [trigger |-> "neutral", animation |-> "idle_blink"]>>,
     branding_elements |->
        [logo_url |-> "", background_color |-> "#FFFFFF",
         theme_colors |-> <<"#2C5F8D", "#5CA3D5", "#A8D0E6">>,
         font_family |-> "Inter, sans-serif", company_name |-> ""]]

\* data?.key || {}
Section(data, key) == IF key \in DOMAIN data THEN data[key] ELSE <<>>

\* a merge that concatenates the theme colors of the template and the data
withDefaultsConcatColors(data) ==
    LET T  == defaultAvatarTemplate
        va == Section(data, "visual_appearance")
        be == Section(data, "branding_elements")
    IN  [(data @@ T) EXCEPT
            !.visual_appearance =
                [face |-> Section(va, "face") @@ T.visual_appearance.face,
                 clothing |-> Section(va, "clothing") @@ T.visual_appearance.clothing,
                 style |-> Section(va, "style") @@ T.visual_appearance.style]
                @@ va @@ T.visual_appearance,
            !.voice_characteristics =
                Section(data, "voice_characteristics") @@ T.voice_characteristics,
            !.personality_traits =
                Section(data, "personality_traits") @@ T.personality_traits,
            !.animation_behaviors =
                IF "animation_behaviors" \in DOMAIN data /\ Len(data.animation_behaviors) > 0
                THEN data.animation_behaviors ELSE T.animation_behaviors,
            !.branding_elements =
                [(be @@ T.branding_elements) EXCEPT
                    !.theme_colors = T.branding_elements.theme_colors
                                     \o (be @@ T.branding_elements).theme_colors]]

\* a merge that reads the voice section template last, so the template wins
withDefaultsTemplateWins(data) ==
    LET T  == defaultAvatarTemplate
        va == Section(data, "visual_appearance")
    IN  [(data @@ T) EXCEPT
            !.visual_appearance =
                [face |-> Section(va, "face") @@ T.visual_appearance.face,
                 clothing |-> Section(va, "clothing") @@ T.visual_appearance.clothing,
                 style |-> Section(va, "style") @@ T.visual_appearance.style]
                @@ va @@ T.visual_appearance,
            !.voice_characteristics =
                T.voice_characteristics @@ Section(data, "voice_characteristics"),
            !.personality_traits =
                Section(data, "personality_traits") @@ T.personality_traits,
            !.animation_behaviors =
                IF "animation_behaviors" \in DOMAIN data /\ Len(data.animation_behaviors) > 0
                THEN data.animation_behaviors ELSE T.animation_behaviors,
            !.branding_elements =
                Section(data, "branding_elements") @@ T.branding_elements]

\* withDefaults(data): {...template, ...data}, then every section merged
\* over the section of the template; an absent or empty animation list is
\* replaced by the list of the template
withDefaults(data) ==
    LET T  == defaultAvatarTemplate
        va == Section(data, "visual_appearance")
    IN  [(data @@ T) EXCEPT
            !.visual_appearance =
                [face |-> Section(va, "face") @@ T.visual_appearance.face,
                 clothing |-> Section(va, "clothing") @@ T.visual_appearance.clothing,
                 style |-> Section(va, "style") @@ T.visual_appearance.style]
                @@ va @@ T.visual_appearance,
            !.voice_characteristics =
                Section(data, "voice_characteristics") @@ T.voice_characteristics,
            !.personality_traits =
                Section(data, "personality_traits") @@ T.personality_traits,
            !.animation_behaviors =
                IF "animation_behaviors" \in DOMAIN data /\ Len(data.animation_behaviors) > 0
                THEN data.animation_behaviors ELSE T.animation_behaviors,
            !.branding_elements =
                Section(data, "branding_elements") @@ T.branding_elements]

MaxThemeColors == 5

DefaultNewColor == "#667eea"

\* an addThemeColor whose guard lets a sixth color in
addThemeColorOffByOne(data, color, err) ==
    IF Len(data.branding_elements.theme_colors) > MaxThemeColors
    THEN [data |-> data, newThemeColor |-> color, error |-> "Maximum 5 theme colors allowed"]
    ELSE [data |-> [data EXCEPT !.branding_elements.theme_colors = Append(@, color)],
          newThemeColor |-> DefaultNewColor, error |-> err]

\* addThemeColor() on the rendered avatarData, with newThemeColor = color
addThemeColor(data, color, err) ==
    IF Len(data.branding_elements.theme_colors) >= MaxThemeColors
    THEN [data |-> data, newThemeColor |-> color, error |-> "Maximum 5 theme colors allowed"]
    ELSE [data |-> [data EXCEPT !.branding_elements.theme_colors = Append(@, color)],
          newThemeColor |-> DefaultNewColor, error |-> err]

\* splice(index, 1)
RemoveAt(list, index) ==
    [j \in 1..(Len(list) - 1) |-> IF j < index THEN list[j] ELSE list[j + 1]]

\* removeThemeColor(index), index counted from 1
removeThemeColor(data, index) ==
    [data EXCEPT !.branding_elements.theme_colors = RemoveAt(@, index)]

\* theme color lists and animation lists of the avatars the backend holds:
\* the data model allows 0 to 5 theme colors
ThemeLists ==
    {<<>>, <<"#A", "#B", "#A", "#B">>, <<"#A", "#B", "#A", "#B", "#A">>,
     defaultAvatarTemplate.branding_elements.theme_colors}

AnimationLists ==
    {<<>>, <<[trigger |-> "greeting", animation |-> "smile"]>>,
     defaultAvatarTemplate.animation_behaviors \o <<[trigger |-> "farewell", animation |-> "smile"]>>}

\* avatars with every section and every field of the template specified
CompleteAvatars ==
    {("id" :> "a1") @@
     [defaultAvatarTemplate EXCEPT !.name = "Ann",
                                   !.voice_characteristics.gender = g,
                                   !.animation_behaviors = anim,
                                   !.branding_elements.theme_colors = theme] :
        g \in {"male"}, anim \in AnimationLists, theme \in ThemeLists}

\* what GET /api/avatars/<id> can return: a complete avatar, one without
\* some sections, or one whose branding section has the theme colors only
BackendAvatars ==
    CompleteAvatars
    \cup {[k \in {"id", "name", "branding_elements"} |-> a[k]] : a \in CompleteAvatars}
    \cup {[k \in {"id", "name"} |-> a[k]] : a \in CompleteAvatars}
    \cup {[a EXCEPT !.branding_elements = [theme_colors |-> @.theme_colors]] :
            a \in CompleteAvatars}

\* ------------------------------------------------------- A/B test manager
\* satisfaction scores are written in tenths (4.2 is 42), so that the
\* products are integers
MockTest ==
    [avatar_a_name |-> "Professional Assistant", avatar_b_name |-> "Friendly Helper",
     status |-> "active",
     metrics |-> [conversations_a |-> 156, conversations_b |-> 162,
                  satisfaction_a |-> 42, satisfaction_b |-> 45]]

Conversations == {0, 1, 42, 45, 156, 162}

Satisfactions == {0, 42, 45}

\* the tests a card is rendered for
ABTests ==
    {[MockTest EXCEPT !.status = st,
                      !.metrics = [conversations_a |-> ca, conversations_b |-> cb,
                                   satisfaction_a |-> sa, satisfaction_b |-> sb]] :
        st \in {"draft", "active"}, ca \in Conversations, cb \in Conversations,
        sa \in Satisfactions, sb \in Satisfactions}

\* a calculateWinner that gives equal scores to side A
calculateWinnerAtLeast(test) ==
    IF test.metrics.conversations_a = 0 /\ test.metrics.conversations_b = 0
    THEN "No data yet"
    ELSE LET score_a == test.metrics.satisfaction_a * test.metrics.conversations_a
             score_b == test.metrics.satisfaction_b * test.metrics.conversations_b
         IN  IF score_a >= score_b THEN test.avatar_a_name
             ELSE IF score_b > score_a THEN test.avatar_b_name
             ELSE "Tie"

\* calculateWinner(test)
calculateWinner(test) ==
    IF test.metrics.conversations_a = 0 /\ test.metrics.conversations_b = 0
    THEN "No data yet"
    ELSE LET score_a == test.metrics.satisfaction_a * test.metrics.conversations_a
             score_b == test.metrics.satisfaction_b * test.metrics.conversations_b
         IN  IF score_a > score_b THEN test.avatar_a_name
             ELSE IF score_b > score_a THEN test.avatar_b_name
             ELSE "Tie"

\* ---------------------------------------------------------- avatar gallery
\* the avatars GET /api/avatars/ returns, and the id a clone gets
ServerAvatars == <<"a1", "a2">>

CloneId == "a3"

\* a closed dialog: { open: false, avatarId: null }
Closed == [open |-> FALSE, avatarId |-> ""]

\* prev.filter((avatar) => avatar.id !== id)
RECURSIVE Without(_, _)
Without(list, id) ==
    IF list = << >> THEN << >>
    ELSE IF Head(list) = id THEN Without(Tail(list), id)
    ELSE <<Head(list)>> \o Without(Tail(list), id)

Reverse(list) == [j \in 1..Len(list) |-> list[Len(list) + 1 - j]]

\* the versions the backend holds for the avatar at the start, oldest
\* first, each named by its number in the order of creation
FirstVersions == <<1>>

\* GET /api/avatars/<id>/versions: the versions, newest first
ListVersions(stored) == Reverse(stored)

\* POST /api/avatars/<id>/versions: the created version
CreateVersion(stored) == Len(stored) + 1

\* saveSnapshot: [res.data, ...updated[avatarId]], or [res.data]
PrependVersion(created, entry) ==
    IF entry.ok THEN created \o entry.value ELSE created

\* ------------------------------------- A/B test manager, server-backed
\* the tests the backend holds when the manager mounts, and the test a
\* create request adds
FirstTests == <<[id |-> "t1", is_active |-> FALSE]>>

CreatedTest == [id |-> "t2", is_active |-> FALSE]

\* POST .../ab-tests/<id>/start and .../stop on the stored tests
SetActive(stored, testId, active) ==
    [j \in 1..Len(stored) |->
        IF stored[j].id = testId THEN [stored[j] EXCEPT !.is_active = active]
        ELSE stored[j]]

\* a request of the manager, in flight
ABCall(kind, testId, after) ==
    [kind |-> kind, testId |-> testId, after |-> after, served |-> FALSE, ok |-> FALSE,
     data |-> << >>]

\* ------------------------------------------------------------------ Init
\* new ChatWidget() on a browser profile with empty local storage; the ids
\* are interchangeable there, so the first page takes "s1"
ChatWidgetInit ==
    /\ loaded = TRUE
    /\ loads = 0
    /\ sessionId = "s1"
    /\ sockets = <<"connecting">>
    /\ ws = 1
    /\ isConnected = FALSE
    /\ reconnectAttempts = 0
    /\ reconnectTimers = 0
    /\ messageQueue = <<>>
    /\ isTyping = FALSE
    /\ typingTimeout = FALSE
    /\ field = ""
    /\ inputDisabled = FALSE
    /\ widgetHidden = FALSE
    /\ messages = <<>>
    /\ systemMessages = showSystemMessage(0)
    /\ uploadProgress = 0
    /\ uploadProgressElement = FALSE
    /\ reads = <<>>
    /\ storage = [k \in SessionIds |-> NoHistory]
    /\ hung = FALSE
    /\ submitted = <<>>
    /\ sent = <<>>
    /\ delays = <<>>
    /\ closeEvents = 0
    /\ uploads = <<>>
    /\ typingIndicator = FALSE
    /\ presenceStatus = "initial"
    /\ logged = <<>>

\* no chat-widget tab is open
StaticInit ==
    /\ client = "simple"
    /\ page = "none"
    /\ search = NoSearch
    /\ source = Null
    /\ AVATAR_CONFIG = Null
    /\ previewAvatarId = ""
    /\ call = Idle
    /\ staticDisabled = FALSE
    /\ staticFocus = FALSE
    /\ staticStatus = ""
    /\ bubbles = <<>>
    /\ requests = <<>>
    /\ outcomes = <<>>
    /\ header = ""
    /\ audio = "none"

\* the designer is not mounted
DesignerInit ==
    /\ route = "none"
    /\ avatarData = defaultAvatarTemplate
    /\ designerError = ""
    /\ designerSuccess = ""
    /\ newThemeColor = DefaultNewColor
    /\ loadPending = FALSE
    /\ savePending = FALSE
    /\ posted = [ok |-> FALSE, method |-> "", value |-> <<>>]
    /\ lastMerge = [ok |-> FALSE, input |-> <<>>, output |-> <<>>]
    /\ edits = 0
    /\ saves = 0
    /\ loading = FALSE
    /\ effectPending = FALSE
    /\ dirty = {}

\* the manager shows its sample test
ABInit ==
    /\ abTest = MockTest
    /\ winner = calculateWinner(MockTest)

\* the gallery has mounted and loadAvatars is in flight
GalleryInit ==
    /\ avatars = << >>
    /\ avatarsPending = TRUE
    /\ galleryError = ""
    /\ operationMessage = ""
    /\ deleteDialog = Closed
    /\ deleteCalls = << >>
    /\ deleteLog = << >>
    /\ cloneCalls = 0
    /\ clones = 0
    /\ versionsDialog = Closed
    /\ versionsMap = [id \in {"a1"} |-> Null]
    /\ selectedPreview = Null
    /\ saveVersionMessage = ""
    /\ versionCalls = << >>
    /\ serverVersions = FirstVersions
    /\ snapshots = 0
    /\ avatarShown = [id \in {"a1", "a2", CloneId} |-> 0]
    /\ revertCalls = << >>
    /\ revertLog = << >>
    /\ reverts = 0

\* the manager has mounted and its loadTests is in flight
ManagerInit ==
    /\ tests = << >>
    /\ serverTests = FirstTests
    /\ abCalls = <<ABCall("load", "", "")>>
    /\ abError = ""
    /\ abSuccess = ""
    /\ abActions = 0

Init ==
    ChatWidgetInit /\ StaticInit /\ DesignerInit /\ ABInit /\ GalleryInit /\ ManagerInit

\* ------------------------------------------------------- connection events
\* window 'online': connect()
OnlineEvent ==
    /\ Live
    /\ LET c == connect(sockets, ws, systemMessages)
       IN  /\ sockets' = c.sockets
           /\ ws' = c.ws
           /\ systemMessages' = c.sys
    /\ UNCHANGED <<pageVars, frameVars, isConnected, reconnectAttempts, reconnectTimers, delays,
                   closeEvents, outVars, typingVars, fileVars, inputDisabled,
                   widgetHidden, messages, storage, hung>>

\* a disconnect() that does not call saveChatHistory()
disconnectWithoutSave ==
    /\ sockets' = wsClose(sockets, ws)
    /\ ws' = 0
    /\ isConnected' = FALSE
    /\ UNCHANGED storage

\* disconnect(): close and drop this.ws, then saveChatHistory()
disconnect ==
    /\ sockets' = wsClose(sockets, ws)
    /\ ws' = 0
    /\ isConnected' = FALSE
    /\ storage' = [storage EXCEPT ![sessionId] = saveChatHistory(messages)]

\* window 'offline': disconnect()
OfflineEvent ==
    /\ Live
    /\ disconnect
    /\ UNCHANGED <<pageVars, frameVars, reconnectAttempts, reconnectTimers, delays, closeEvents,
                   outVars, typingVars, fileVars, inputDisabled, widgetHidden,
                   messages, systemMessages, hung>>

\* closeChat(): hide the widget, show the toggle, disconnect()
closeChat ==
    /\ Live /\ ~widgetHidden
    /\ widgetHidden' = TRUE
    /\ disconnect
    /\ UNCHANGED <<pageVars, frameVars, reconnectAttempts, reconnectTimers, delays, closeEvents,
                   outVars, typingVars, fileVars, inputDisabled,
                   messages, systemMessages, hung>>

\* openChat(): show the widget; connect() if not connected
openChat ==
    /\ Live /\ widgetHidden
    /\ widgetHidden' = FALSE
    /\ LET c == IF ~isConnected THEN connect(sockets, ws, systemMessages)
                ELSE [sockets |-> sockets, ws |-> ws, sys |-> systemMessages]
       IN  /\ sockets' = c.sockets
           /\ ws' = c.ws
           /\ systemMessages' = c.sys
    /\ UNCHANGED <<pageVars, frameVars, isConnected, reconnectAttempts, reconnectTimers, delays,
                   closeEvents, outVars, typingVars, fileVars, inputDisabled,
                   messages, storage, hung>>

\* the setTimeout callback of handleDisconnection: connect()
ReconnectTimerFires ==
    /\ Live /\ reconnectTimers > 0
    /\ reconnectTimers' = reconnectTimers - 1
    /\ LET c == connect(sockets, ws, systemMessages)
       IN  /\ sockets' = c.sockets
           /\ ws' = c.ws
           /\ systemMessages' = c.sys
    /\ UNCHANGED <<pageVars, frameVars, isConnected, reconnectAttempts, delays, closeEvents,
                   outVars, typingVars, fileVars, inputDisabled, widgetHidden,
                   messages, storage, hung>>

\* an open handler that also calls enableInput()
wsOnOpenEnablesInput(s) ==
    /\ Live /\ s \in 1..Len(sockets) /\ sockets[s] = "connecting"
    /\ sockets' = [sockets EXCEPT ![s] = "open"]
    /\ isConnected' = TRUE
    /\ reconnectAttempts' = 0
    /\ systemMessages' = 0
    /\ LET p == processMessageQueue(TRUE, ws, sockets', messageQueue, sent)
       IN  /\ messageQueue' = p.queue
           /\ sent' = p.sent
           /\ hung' = p.hung
    /\ delays' = <<>>
    /\ closeEvents' = 0
    /\ inputDisabled' = FALSE
    /\ UNCHANGED <<pageVars, frameVars, ws, reconnectTimers, submitted, typingVars, fileVars,
                   widgetHidden, messages, storage>>

\* ws.onopen of socket s
wsOnOpen(s) ==
    /\ Live /\ s \in 1..Len(sockets) /\ sockets[s] = "connecting"
    /\ sockets' = [sockets EXCEPT ![s] = "open"]
    /\ isConnected' = TRUE
    /\ reconnectAttempts' = 0
    /\ systemMessages' = 0
    /\ LET p == processMessageQueue(TRUE, ws, sockets', messageQueue, sent)
       IN  /\ messageQueue' = p.queue
           /\ sent' = p.sent
           /\ hung' = p.hung
    /\ delays' = <<>>
    /\ closeEvents' = 0
    /\ UNCHANGED <<pageVars, frameVars, ws, reconnectTimers, submitted, typingVars, fileVars,
                   inputDisabled, widgetHidden, messages, storage>>

\* handleDisconnection(): schedule a reconnect, or give up and disable input
handleDisconnection(sys) ==
    IF reconnectAttempts < maxReconnectAttempts
    THEN /\ reconnectAttempts' = reconnectAttempts + 1
         /\ delays' = Append(delays, BackoffDelay(reconnectAttempts + 1))
         /\ systemMessages' = showSystemMessage(sys)
         /\ reconnectTimers' = reconnectTimers + 1
         /\ UNCHANGED inputDisabled
    ELSE /\ systemMessages' = showSystemMessage(sys)
         /\ inputDisabled' = TRUE
         /\ UNCHANGED <<reconnectAttempts, delays, reconnectTimers>>

\* the close event of socket s (after the error event when err): ws.onerror
\* shows a status line, ws.onclose clears isConnected and calls
\* handleDisconnection()
wsOnClose(s, err) ==
    /\ Live /\ s \in 1..Len(sockets)
    /\ sockets[s] \in {"connecting", "open", "closing"}
    /\ sockets' = [sockets EXCEPT ![s] = "closed"]
    /\ isConnected' = FALSE
    /\ handleDisconnection(IF err THEN showSystemMessage(systemMessages)
                           ELSE systemMessages)
    /\ closeEvents' = closeEvents + 1
    /\ UNCHANGED <<pageVars, frameVars, ws, outVars, typingVars, fileVars, widgetHidden,
                   messages, storage, hung>>

\* ---------------------------------------------------------- inbound frames
\* frames the server can send.  A frame of type "unknown" has a type the
\* switch does not know; "unparseable" is a payload JSON.parse rejects.
PlainTypes == {"system_message", "conversation_ended", "error", "unknown", "unparseable"}

MessageFrames == [type : {"message"}, sender : Senders, content : {"hi"}, timestamp : {"iso"}]

InboundFrames ==
    {[type |-> t, sender |-> "", content |-> "", timestamp |-> ""] : t \in PlainTypes}
    \cup MessageFrames

\* typing_indicator frames (sender with is_typing true, "" for is_typing
\* false) and presence_update frames (content is data.status)
IndicatorFrames ==
    [type : {"typing_indicator"}, sender : {"", "Ann"}, content : {""}, timestamp : {""}]
    \cup [type : {"presence_update"}, sender : {""},
          content : {"online", "away", "offline", "other"}, timestamp : {""}]

AllFrames == InboundFrames \cup IndicatorFrames

\* handleTypingIndicator: the indicator shown afterwards
handleTypingIndicator(data) == data.sender # ""

\* handlePresenceUpdate: the status text afterwards
handlePresenceUpdate(status, data) ==
    IF data.content \in {"online", "away", "offline"} THEN data.content ELSE status

\* a switch whose default case falls into conversation_ended's disableInput()
wsOnMessageFallsThrough(data) ==
    /\ Live /\ \E s \in 1..Len(sockets) : sockets[s] = "open"
    /\ messages' = IF data.type = "message" THEN Append(messages, Bubble(data)) ELSE messages
    /\ systemMessages' = IF data.type \in {"system_message", "conversation_ended", "error"}
                         THEN showSystemMessage(systemMessages) ELSE systemMessages
    /\ inputDisabled' = IF data.type \in {"conversation_ended", "unknown"} THEN TRUE ELSE inputDisabled
    /\ typingIndicator' = IF data.type = "typing_indicator"
                          THEN handleTypingIndicator(data) ELSE typingIndicator
    /\ presenceStatus' = IF data.type = "presence_update"
                         THEN handlePresenceUpdate(presenceStatus, data) ELSE presenceStatus
    /\ logged' = IF data.type = "unknown" THEN Append(logged, "Unknown message type")
                 ELSE IF data.type = "unparseable"
                      THEN Append(logged, "Error parsing WebSocket message")
                      ELSE logged
    /\ UNCHANGED <<pageVars, connVars, outVars, typingVars, fileVars, widgetHidden,
                   storage, hung>>

\* ws.onmessage of a socket that is open: JSON.parse, then
\* handleWebSocketMessage(data)
wsOnMessage(data) ==
    /\ Live /\ \E s \in 1..Len(sockets) : sockets[s] = "open"
    /\ messages' = IF data.type = "message" THEN Append(messages, Bubble(data)) ELSE messages
    /\ systemMessages' = IF data.type \in {"system_message", "conversation_ended", "error"}
                         THEN showSystemMessage(systemMessages) ELSE systemMessages
    /\ inputDisabled' = IF data.type = "conversation_ended" THEN TRUE ELSE inputDisabled
    /\ typingIndicator' = IF data.type = "typing_indicator"
                          THEN handleTypingIndicator(data) ELSE typingIndicator
    /\ presenceStatus' = IF data.type = "presence_update"
                         THEN handlePresenceUpdate(presenceStatus, data) ELSE presenceStatus
    /\ logged' = IF data.type = "unknown" THEN Append(logged, "Unknown message type")
                 ELSE IF data.type = "unparseable"
                      THEN Append(logged, "Error parsing WebSocket message")
                      ELSE logged
    /\ UNCHANGED <<pageVars, connVars, outVars, typingVars, fileVars, widgetHidden,
                   storage, hung>>

\* ------------------------------------------------------------ typing, send
\* one call of sendToWebSocket from a handler, on the outbound state o
Emit(o, type, size) ==
    LET m == Message(Len(o.submitted) + 1, type, size)
        r == sendToWebSocket(isConnected, ws, sockets, o.queue, o.sent, m, FALSE)
    IN  [queue |-> r.queue, sent |-> r.sent, submitted |-> Append(o.submitted, m),
         threw |-> r.threw]

Outbound == [queue |-> messageQueue, sent |-> sent, submitted |-> submitted, threw |-> FALSE]

\* a stopTyping() that leaves the typing state without sending anything
stopTypingSilent(typing, timeout, o) ==
    [isTyping |-> FALSE, typingTimeout |-> FALSE, out |-> o]

\* a stopTyping() without the isTyping test: a typing_stop on every call
stopTypingAlways(typing, timeout, o) ==
    LET e == Emit(o, "typing_stop", 0)
    IN  [isTyping |-> FALSE, typingTimeout |-> IF e.threw THEN timeout ELSE FALSE,
         out |-> e]

\* stopTyping(): one typing_stop if typing, then clearTimeout
stopTyping(typing, timeout, o) ==
    IF typing
    THEN LET e == Emit(o, "typing_stop", 0)
         IN  [isTyping |-> FALSE, typingTimeout |-> IF e.threw THEN timeout ELSE FALSE,
              out |-> e]
    ELSE [isTyping |-> FALSE, typingTimeout |-> FALSE, out |-> o]

\* the user can reach the input row
CanType == Live /\ ~inputDisabled /\ ~widgetHidden

\* handleTyping(event): the input event that makes the field value v
handleTyping(v) ==
    /\ CanType /\ v \in FieldValues /\ v # field
    /\ field' = v
    /\ LET hasContent == Len(Trim(v)) > 0
           r == IF hasContent /\ ~isTyping
                THEN [isTyping |-> TRUE, out |-> Emit(Outbound, "typing_start", 0)]
                ELSE IF ~hasContent /\ isTyping
                     THEN stopTyping(isTyping, typingTimeout, Outbound)
                     ELSE [isTyping |-> isTyping, out |-> Outbound]
       IN  /\ isTyping' = r.isTyping
           /\ messageQueue' = r.out.queue
           /\ sent' = r.out.sent
           /\ submitted' = r.out.submitted
           /\ typingTimeout' = IF r.out.threw THEN typingTimeout ELSE TRUE
    /\ UNCHANGED <<pageVars, frameVars, connVars, fileVars, inputDisabled, widgetHidden,
                   messages, systemMessages, storage, hung>>

\* the idle timer set by handleTyping fires: stopTyping()
TypingTimeoutFires ==
    /\ Live /\ typingTimeout
    /\ LET r == stopTyping(isTyping, FALSE, Outbound)
       IN  /\ isTyping' = r.isTyping
           /\ messageQueue' = r.out.queue
           /\ sent' = r.out.sent
           /\ submitted' = r.out.submitted
    /\ typingTimeout' = FALSE
    /\ UNCHANGED <<pageVars, frameVars, connVars, field, fileVars, inputDisabled, widgetHidden,
                   messages, systemMessages, storage, hung>>

\* sendMessage(): Enter in the field or a click on the send button.  A
\* message with content counts as submitted by the user also when the
\* method returns without building it.
sendMessage ==
    /\ CanType
    /\ LET content == Trim(field)
       IN  IF Len(content) = 0
           THEN UNCHANGED <<outVars, typingVars>>
           ELSE IF ~isConnected
                THEN /\ submitted' = Append(submitted, Message(Len(submitted) + 1, "text", 0))
                     /\ UNCHANGED <<messageQueue, sent, typingVars>>
                ELSE LET e == Emit(Outbound, "text", 0)
                         r == stopTyping(isTyping, typingTimeout, e)
                     IN  IF e.threw
                         THEN /\ submitted' = e.submitted
                              /\ UNCHANGED <<messageQueue, sent, typingVars>>
                         ELSE /\ field' = ""
                              /\ isTyping' = r.isTyping
                              /\ typingTimeout' = r.typingTimeout
                              /\ messageQueue' = r.out.queue
                              /\ sent' = r.out.sent
                              /\ submitted' = r.out.submitted
    /\ UNCHANGED <<pageVars, frameVars, connVars, fileVars, inputDisabled, widgetHidden,
                   messages, systemMessages, storage, hung>>

\* ------------------------------------------------------------ file upload
\* a size check that also turns away a file of exactly the limit
FileTooLargeAtLimit(size) == size >= MaxFileSize

\* the size check of handleFileUpload
FileTooLarge(size) == size > MaxFileSize

\* handleFileUpload(event) for a chosen file of `size` bytes
handleFileUpload(size) ==
    /\ CanType /\ size \in FileSizes
    /\ IF FileTooLarge(size)
       THEN /\ systemMessages' = showSystemMessage(systemMessages)
            /\ uploads' = Append(uploads, [size |-> size, accepted |-> FALSE])
            /\ UNCHANGED <<uploadProgress, uploadProgressElement, reads>>
       ELSE /\ uploadProgress' = uploadProgress + 1
            /\ uploadProgressElement' = TRUE
            /\ reads' = Append(reads, size)
            /\ uploads' = Append(uploads, [size |-> size, accepted |-> TRUE])
            /\ UNCHANGED systemMessages
    /\ UNCHANGED <<pageVars, frameVars, connVars, outVars, typingVars, inputDisabled,
                   widgetHidden, messages, storage, hung>>

\* reader.onloadend of read i: send the media_upload message, then
\* hideUploadProgress()
FileReadEnds(i) ==
    /\ Live /\ i \in 1..Len(reads)
    /\ LET e == Emit(Outbound, "media_upload", reads[i])
       IN  /\ messageQueue' = e.queue
           /\ sent' = e.sent
           /\ submitted' = e.submitted
           /\ IF e.threw \/ ~uploadProgressElement
              THEN UNCHANGED <<uploadProgress, uploadProgressElement>>
              ELSE /\ uploadProgress' = uploadProgress - 1
                   /\ uploadProgressElement' = FALSE
    /\ reads' = [j \in 1..(Len(reads) - 1) |-> IF j < i THEN reads[j] ELSE reads[j + 1]]
    /\ UNCHANGED <<pageVars, frameVars, connVars, typingVars, uploads, inputDisabled,
                   widgetHidden, messages, systemMessages, storage, hung>>

\* ------------------------------------------------------- unload and reload
\* window 'beforeunload': disconnect(); the page and its sockets are gone
BeforeUnload ==
    /\ Live
    /\ storage' = [storage EXCEPT ![sessionId] = saveChatHistory(messages)]
    /\ loaded' = FALSE
    /\ sockets' = <<>>
    /\ ws' = 0
    /\ isConnected' = FALSE
    /\ reconnectAttempts' = 0
    /\ reconnectTimers' = 0
    /\ messageQueue' = <<>>
    /\ isTyping' = FALSE
    /\ typingTimeout' = FALSE
    /\ field' = ""
    /\ inputDisabled' = FALSE
    /\ widgetHidden' = FALSE
    /\ messages' = <<>>
    /\ systemMessages' = 0
    /\ uploadProgress' = 0
    /\ uploadProgressElement' = FALSE
    /\ reads' = <<>>
    /\ submitted' = <<>>
    /\ sent' = <<>>
    /\ delays' = <<>>
    /\ closeEvents' = 0
    /\ uploads' = <<>>
    /\ typingIndicator' = FALSE
    /\ presenceStatus' = "initial"
    /\ logged' = <<>>
    /\ UNCHANGED <<loads, sessionId, hung>>

\* DOMContentLoaded of the next page: new ChatWidget(), that is
\* generateSessionId(), connect(), loadChatHistory()
PageLoad(sid) ==
    /\ ~loaded /\ sid \in SessionIds
    /\ loaded' = TRUE
    /\ loads' = loads + 1
    /\ sessionId' = sid
    /\ sockets' = <<"connecting">>
    /\ ws' = 1
    /\ systemMessages' = showSystemMessage(0)
    /\ messages' = loadChatHistory(storage[sid])
    /\ UNCHANGED <<isConnected, reconnectAttempts, reconnectTimers, delays, closeEvents,
                   outVars, typingVars, fileVars, frameVars, inputDisabled, widgetHidden,
                   storage, hung>>

\* ------------------------------------------- static chat-widget page
\* a new tab with the chat-widget page; which of the two client scripts the
\* page carries is a matter of the deployment
OpenTab(s, src) ==
    /\ page = "none"
    /\ page' = "loading"
    /\ search' = s
    /\ source' = src
    /\ client' \in {"simple", "config"}
    /\ UNCHANGED <<AVATAR_CONFIG, previewAvatarId, chatVars, notStatic>>

\* the gallery's openPreviewWithConfig(avatar)
openPreviewWithConfig(avatar) == OpenTab(ConfigUrl(avatar), Some(avatar))

\* the designer's previewAvatar() for the saved avatar id
previewAvatar(id) == OpenTab(ByReference(id), Null)

\* the page opened from a URL typed by hand
OpenTypedUrl(s) == OpenTab(s, Null)

\* the script runs and DOMContentLoaded fires.  The config-aware script
\* decodes the config parameter; the simple one reads the avatar id from the
\* data-avatar-id attribute of the page's body, `dataset` here.
DOMContentLoaded(dataset) ==
    /\ page = "loading"
    /\ page' = "ready"
    /\ IF client = "config"
       THEN LET cfg == decodeConfigFromURL(search)
            IN  /\ AVATAR_CONFIG' = cfg
                /\ previewAvatarId' = IF cfg.ok /\ "id" \in DOMAIN cfg.value
                                      THEN cfg.value.id ELSE ""
       ELSE /\ AVATAR_CONFIG' = Null
            /\ previewAvatarId' = dataset
    /\ header' = "Preview Avatar"
    /\ staticFocus' = TRUE
    /\ UNCHANGED <<client, search, source, call, staticDisabled, staticStatus, bubbles,
                   requests, outcomes, audio, notStatic>>

\* the tab is closed
CloseTab ==
    /\ page # "none"
    /\ client' = "simple"
    /\ page' = "none"
    /\ search' = NoSearch
    /\ source' = Null
    /\ AVATAR_CONFIG' = Null
    /\ previewAvatarId' = ""
    /\ call' = Idle
    /\ staticDisabled' = FALSE
    /\ staticFocus' = FALSE
    /\ staticStatus' = ""
    /\ bubbles' = <<>>
    /\ requests' = <<>>
    /\ outcomes' = <<>>
    /\ header' = ""
    /\ audio' = "none"
    /\ UNCHANGED notStatic

\* the gender the config-aware sendMessage sends, "" for null
VoiceGender(cfg) ==
    IF ~cfg.ok THEN ""
    ELSE IF "voice_characteristics" \in DOMAIN cfg.value
            /\ "gender" \in DOMAIN cfg.value.voice_characteristics
            /\ Truthy(cfg.value.voice_characteristics.gender)
         THEN cfg.value.voice_characteristics.gender
         ELSE Or(cfg.value, "gender", "")

\* the body posted to /api/chat/generate
RequestPayload ==
    IF client = "config"
    THEN [avatar_id |-> previewAvatarId, voice_gender |-> VoiceGender(AVATAR_CONFIG)]
    ELSE [avatar_id |-> previewAvatarId, voice_gender |-> "none"]

\* a sendMessage that starts its request without setInputDisabled(true)
SubmitLeavesEnabled(text) ==
    /\ page = "ready" /\ ~staticDisabled
    /\ IF Len(Trim(text)) = 0
       THEN UNCHANGED chatVars
       ELSE /\ bubbles' = Append(bubbles, "user")
            /\ staticStatus' = "Waiting for reply"
            /\ requests' = Append(requests, RequestPayload)
            /\ call' = [at |-> "fetch", avatar |-> ""]
            /\ UNCHANGED <<staticDisabled, staticFocus, outcomes, header, audio>>
    /\ UNCHANGED <<tabVars, notStatic>>

\* submit of the form or click on the send button with `text` in the
\* input: sendMessage up to its fetch
Submit(text) ==
    /\ page = "ready" /\ ~staticDisabled
    /\ IF Len(Trim(text)) = 0
       THEN UNCHANGED chatVars
       ELSE /\ bubbles' = Append(bubbles, "user")
            /\ staticDisabled' = TRUE
            /\ staticStatus' = "Waiting for reply"
            /\ requests' = Append(requests, RequestPayload)
            /\ call' = [at |-> "fetch", avatar |-> ""]
            /\ UNCHANGED <<staticFocus, outcomes, header, audio>>
    /\ UNCHANGED <<tabVars, notStatic>>

\* a finally block that leaves the focus where it is
finallyBlockNoFocus == [disabled |-> FALSE, focus |-> staticFocus]

\* the finally block of sendMessage: setInputDisabled(false), focusInput()
finallyBlock == [disabled |-> FALSE, focus |-> TRUE]

\* the end of a sendMessage call
Finish(outcome) ==
    /\ staticDisabled' = finallyBlock.disabled
    /\ staticFocus' = finallyBlock.focus
    /\ outcomes' = Append(outcomes, outcome)
    /\ call' = Idle

\* replies of the generate endpoint: a network failure, a non-2xx response,
\* a 2xx response whose body is not JSON, and JSON replies with or without
\* audio and with or without a named avatar
Responses ==
    {[kind |-> k, audio |-> FALSE, avatar |-> ""] : k \in {"network", "non2xx", "badjson"}}
    \cup [kind : {"ok"}, audio : BOOLEAN, avatar : {"", "Ann"}]

\* the fetch of the running call settles with `r`: sendMessage from the
\* fetch to its end, or to `await audio.play()` in the config-aware client
FetchSettles(r) ==
    /\ page = "ready" /\ call.at = "fetch"
    /\ IF r.kind = "non2xx"
       THEN /\ staticStatus' = "Server error"
            /\ Finish("server_error")
            /\ UNCHANGED <<bubbles, header, audio>>
       ELSE IF r.kind \in {"network", "badjson"}
       THEN /\ staticStatus' = "Network error"
            /\ Finish(IF r.kind = "network" THEN "network_failure" ELSE "bad_reply")
            /\ UNCHANGED <<bubbles, header, audio>>
       ELSE /\ bubbles' = Append(bubbles, "bot")
            /\ IF client = "config" /\ r.audio
               THEN /\ call' = [at |-> "audio", avatar |-> r.avatar]
                    /\ staticStatus' = ""
                    /\ audio' = "playing"
                    /\ UNCHANGED <<staticDisabled, staticFocus, outcomes, header>>
               ELSE /\ staticStatus' = IF client = "config"
                                       THEN "No audio provided by server" ELSE ""
                    /\ audio' = IF client = "config" THEN audio
                                ELSE IF r.audio THEN "playing" ELSE "speech"
                    /\ header' = IF r.avatar # "" THEN r.avatar ELSE header
                    /\ Finish("success")
    /\ UNCHANGED <<requests, tabVars, notStatic>>

\* config-aware client: the awaited audio.play() settles
AudioPlaySettles(ok) ==
    /\ page = "ready" /\ call.at = "audio"
    /\ staticStatus' = IF ok THEN staticStatus ELSE "Audio playback error"
    /\ audio' = IF ok THEN audio ELSE "failed"
    /\ header' = IF call.avatar # "" THEN call.avatar ELSE header
    /\ Finish("success")
    /\ UNCHANGED <<bubbles, requests, tabVars, notStatic>>

\* simple client: audio.play() rejects, fallbackSpeak(reply)
AudioPlayFails ==
    /\ page = "ready" /\ client = "simple" /\ audio = "playing"
    /\ audio' = "speech"
    /\ UNCHANGED <<call, staticDisabled, staticFocus, staticStatus, bubbles, requests,
                   outcomes, header, tabVars, notStatic>>

\* the user moves the focus away from the input
Blur ==
    /\ page = "ready" /\ staticFocus
    /\ staticFocus' = FALSE
    /\ UNCHANGED <<call, staticDisabled, staticStatus, bubbles, requests, outcomes,
                   header, audio, tabVars, notStatic>>

\* ------------------------------------------------- avatar designer form
\* the route /avatars/<id> or /avatars/new is entered: the form starts from
\* the default values and, for a saved avatar, loadAvatar(id) is started
OpenDesigner(r) ==
    /\ route = "none" /\ r \in {"new", "a1"}
    /\ route' = r
    /\ avatarData' = defaultAvatarTemplate
    /\ loadPending' = (r # "new")
    /\ loading' = (r # "new")
    /\ UNCHANGED <<designerError, designerSuccess, newThemeColor, savePending, posted,
                   lastMerge, edits, saves, effectPending, dirty, notDesigner>>

\* useEffect([id]) after navigate: loadAvatar(id) up to its request
useEffectId ==
    /\ route # "none" /\ effectPending
    /\ effectPending' = FALSE
    /\ loadPending' = TRUE
    /\ loading' = TRUE
    /\ dirty' = {}
    /\ UNCHANGED <<route, avatarData, designerError, designerSuccess, newThemeColor,
                   savePending, posted, lastMerge, edits, saves, notDesigner>>

\* loadAvatar: the GET is answered with `data`
loadAvatar(data) ==
    /\ route # "none" /\ loadPending
    /\ loadPending' = FALSE
    /\ avatarData' = withDefaults(data)
    /\ lastMerge' = [ok |-> TRUE, input |-> data, output |-> withDefaults(data)]
    /\ loading' = FALSE
    /\ UNCHANGED <<route, designerError, designerSuccess, newThemeColor, savePending,
                   posted, edits, saves, effectPending, dirty, notDesigner>>

\* loadAvatar: the GET fails
loadAvatarFails ==
    /\ route # "none" /\ loadPending
    /\ loadPending' = FALSE
    /\ designerError' = "Failed to load avatar configuration"
    /\ loading' = FALSE
    /\ UNCHANGED <<route, avatarData, designerSuccess, newThemeColor, savePending,
                   posted, lastMerge, edits, saves, effectPending, dirty, notDesigner>>

\* the name field is edited
EditName(n) ==
    /\ route # "none" /\ avatarData.name # n
    /\ avatarData' = [avatarData EXCEPT !.name = n]
    /\ edits' = edits + 1
    /\ dirty' = dirty \cup {"name"}
    /\ UNCHANGED <<route, loadPending, designerError, designerSuccess, newThemeColor,
                   savePending, posted, lastMerge, saves, loading, effectPending,
                   notDesigner>>

\* a color is picked for the next theme color
PickThemeColor(c) ==
    /\ route # "none" /\ newThemeColor # c
    /\ newThemeColor' = c
    /\ edits' = edits + 1
    /\ UNCHANGED <<route, avatarData, loadPending, designerError, designerSuccess,
                   savePending, posted, lastMerge, saves, loading, effectPending, dirty,
                   notDesigner>>

\* a click on Add Color; the button is disabled with five colors or more
ClickAddColor ==
    /\ route # "none"
    /\ Len(avatarData.branding_elements.theme_colors) < MaxThemeColors
    /\ LET r == addThemeColor(avatarData, newThemeColor, designerError)
       IN  /\ avatarData' = r.data
           /\ newThemeColor' = r.newThemeColor
           /\ designerError' = r.error
    /\ edits' = edits + 1
    /\ dirty' = dirty \cup {"theme_colors"}
    /\ UNCHANGED <<route, loadPending, designerSuccess, savePending, posted, lastMerge,
                   saves, loading, effectPending, notDesigner>>

\* the delete icon of the color chip at `index`
ClickRemoveColor(index) ==
    /\ route # "none"
    /\ index \in 1..Len(avatarData.branding_elements.theme_colors)
    /\ avatarData' = removeThemeColor(avatarData, index)
    /\ edits' = edits + 1
    /\ dirty' = dirty \cup {"theme_colors"}
    /\ UNCHANGED <<route, loadPending, designerError, designerSuccess, newThemeColor,
                   savePending, posted, lastMerge, saves, loading, effectPending,
                   notDesigner>>

\* saveAvatar up to its request: the payload is withDefaults(avatarData);
\* the save button is disabled while loading is set
saveAvatar ==
    /\ route # "none" /\ ~loading
    /\ loading' = TRUE
    /\ designerError' = ""
    /\ savePending' = TRUE
    /\ posted' = [ok |-> TRUE, method |-> IF route = "new" THEN "POST" ELSE "PUT",
                  value |-> withDefaults(avatarData)]
    /\ lastMerge' = [ok |-> TRUE, input |-> avatarData, output |-> withDefaults(avatarData)]
    /\ saves' = saves + 1
    /\ UNCHANGED <<route, avatarData, loadPending, designerSuccess, newThemeColor,
                   edits, effectPending, dirty, notDesigner>>

\* a saveAvatar that clears the loading flag at the end of its try block
SaveSettlesNoFinally(ok) ==
    /\ route # "none" /\ savePending
    /\ savePending' = FALSE
    /\ IF ok
       THEN /\ designerSuccess' = IF route = "new" THEN "Avatar created successfully"
                                  ELSE "Avatar updated successfully"
            /\ route' = "a1"
            /\ effectPending' = (route = "new")
            /\ loading' = FALSE
            /\ UNCHANGED designerError
       ELSE /\ designerError' = "Failed to save avatar configuration"
            /\ UNCHANGED <<designerSuccess, route, effectPending, loading>>
    /\ UNCHANGED <<avatarData, newThemeColor, loadPending, posted, lastMerge, edits,
                   saves, dirty, notDesigner>>

\* the request of saveAvatar settles: a created avatar is navigated to,
\* the message is set and the finally block clears the loading flag
SaveSettles(ok) ==
    /\ route # "none" /\ savePending
    /\ savePending' = FALSE
    /\ IF ok
       THEN /\ designerSuccess' = IF route = "new" THEN "Avatar created successfully"
                                  ELSE "Avatar updated successfully"
            /\ route' = "a1"
            /\ effectPending' = (route = "new")
            /\ UNCHANGED designerError
       ELSE /\ designerError' = "Failed to save avatar configuration"
            /\ UNCHANGED <<designerSuccess, route, effectPending>>
    /\ loading' = FALSE
    /\ UNCHANGED <<avatarData, newThemeColor, loadPending, posted, lastMerge, edits,
                   saves, dirty, notDesigner>>

\* ------------------------------------------------------ A/B test cards
\* the card of `test` is rendered: "Current Winner" shows calculateWinner
RenderTest(test) ==
    /\ abTest # test
    /\ abTest' = test
    /\ winner' = calculateWinner(test)
    /\ UNCHANGED notAB

\* handleStartTest on the rendered test, and the render that follows
handleStartTest ==
    /\ abTest.status = "draft"
    /\ abTest' = [abTest EXCEPT !.status = "active"]
    /\ winner' = calculateWinner(abTest')
    /\ UNCHANGED notAB

\* handleStopTest on the rendered test, and the render that follows
handleStopTest ==
    /\ abTest.status = "active"
    /\ abTest' = [abTest EXCEPT !.status = "completed"]
    /\ winner' = calculateWinner(abTest')
    /\ UNCHANGED notAB

\* -------------------------------------------------- avatar gallery: list
\* loadAvatars, started when the gallery mounts, settles
loadAvatarsSettles(ok) ==
    /\ avatarsPending
    /\ avatarsPending' = FALSE
    /\ IF ok THEN avatars' = ServerAvatars /\ UNCHANGED galleryError
             ELSE galleryError' = "Failed to load avatars" /\ UNCHANGED avatars
    /\ UNCHANGED <<operationMessage, deleteDialog, deleteCalls, deleteLog, cloneCalls,
                   clones, versionVars, revertVars, notGallery>>

\* a delete icon that deletes at once, without the dialog
ClickDeleteIconDeletes(id) ==
    /\ \E j \in 1..Len(avatars) : avatars[j] = id
    /\ deleteCalls' = Append(deleteCalls, id)
    /\ deleteLog' = Append(deleteLog, id)
    /\ UNCHANGED <<avatars, avatarsPending, galleryError, operationMessage, deleteDialog,
                   cloneCalls, clones, versionVars, revertVars, notGallery>>

\* the delete icon of a card: the confirmation dialog opens for its avatar
ClickDeleteIcon(id) ==
    /\ \E j \in 1..Len(avatars) : avatars[j] = id
    /\ deleteDialog' = [open |-> TRUE, avatarId |-> id]
    /\ UNCHANGED <<avatars, avatarsPending, galleryError, operationMessage, deleteCalls,
                   deleteLog, cloneCalls, clones, versionVars, revertVars, notGallery>>

\* Cancel, or a dismissal of the dialog (onClose)
closeDeleteDialog ==
    /\ deleteDialog.open
    /\ deleteDialog' = Closed
    /\ UNCHANGED <<avatars, avatarsPending, galleryError, operationMessage, deleteCalls,
                   deleteLog, cloneCalls, clones, versionVars, revertVars, notGallery>>

\* the Delete button of the dialog: handleDelete up to its request
handleDelete ==
    /\ deleteDialog.avatarId # ""
    /\ deleteCalls' = Append(deleteCalls, deleteDialog.avatarId)
    /\ deleteLog' = Append(deleteLog, deleteDialog.avatarId)
    /\ UNCHANGED <<avatars, avatarsPending, galleryError, operationMessage, deleteDialog,
                   cloneCalls, clones, versionVars, revertVars, notGallery>>

\* the DELETE request at `j` settles: handleDelete after its await
DeleteSettles(j, ok) ==
    /\ j \in 1..Len(deleteCalls)
    /\ deleteCalls' = RemoveAt(deleteCalls, j)
    /\ IF ok
       THEN /\ avatars' = Without(avatars, deleteCalls[j])
            /\ deleteDialog' = Closed
            /\ operationMessage' = "Avatar deleted successfully"
            /\ UNCHANGED galleryError
       ELSE /\ galleryError' = "Failed to delete avatar"
            /\ UNCHANGED <<avatars, deleteDialog, operationMessage>>
    /\ UNCHANGED <<avatarsPending, deleteLog, cloneCalls, clones, versionVars, revertVars, notGallery>>

\* handleClone up to its request
handleClone(id) ==
    /\ \E j \in 1..Len(avatars) : avatars[j] = id
    /\ cloneCalls' = cloneCalls + 1
    /\ clones' = clones + 1
    /\ UNCHANGED <<avatars, avatarsPending, galleryError, operationMessage, deleteDialog,
                   deleteCalls, deleteLog, versionVars, revertVars, notGallery>>

\* a clone request settles: handleClone after its await
CloneSettles(ok) ==
    /\ cloneCalls > 0
    /\ cloneCalls' = cloneCalls - 1
    /\ IF ok
       THEN /\ avatars' = Append(avatars, CloneId)
            /\ operationMessage' = "Avatar cloned successfully"
            /\ UNCHANGED galleryError
       ELSE /\ galleryError' = "Failed to clone avatar"
            /\ UNCHANGED <<avatars, operationMessage>>
    /\ UNCHANGED <<avatarsPending, deleteDialog, deleteCalls, deleteLog, clones,
                   versionVars, revertVars, notGallery>>

\* ----------------------------------------------- avatar gallery: versions
\* openVersionsDialog: the dialog opens and, when the map has no list for
\* the avatar, the list is requested
openVersionsDialog(id) ==
    /\ \E j \in 1..Len(avatars) : avatars[j] = id
    /\ id \in DOMAIN versionsMap
    /\ versionsDialog' = [open |-> TRUE, avatarId |-> id]
    /\ versionCalls' =
         IF versionsMap[id].ok THEN versionCalls
         ELSE Append(versionCalls, [kind |-> "GET", avatarId |-> id, served |-> FALSE,
                                    ok |-> FALSE, data |-> << >>])
    /\ UNCHANGED <<versionsMap, selectedPreview, saveVersionMessage, serverVersions,
                   snapshots, operationMessage, listVars, revertVars, notGallery>>

\* closeVersionsDialog
closeVersionsDialog ==
    /\ versionsDialog.open
    /\ versionsDialog' = Closed
    /\ selectedPreview' = Null
    /\ saveVersionMessage' = ""
    /\ UNCHANGED <<versionsMap, versionCalls, serverVersions, snapshots, operationMessage,
                   listVars, revertVars, notGallery>>

\* the message field of the dialog is edited
TypeVersionMessage(text) ==
    /\ versionsDialog.open /\ saveVersionMessage # text
    /\ saveVersionMessage' = text
    /\ UNCHANGED <<versionsDialog, versionsMap, selectedPreview, versionCalls,
                   serverVersions, snapshots, operationMessage, listVars, revertVars, notGallery>>

\* Save Snapshot: saveSnapshot up to its request
saveSnapshot ==
    /\ versionsDialog.open
    /\ versionCalls' = Append(versionCalls,
                              [kind |-> "POST", avatarId |-> versionsDialog.avatarId,
                               served |-> FALSE, ok |-> FALSE, data |-> << >>])
    /\ snapshots' = snapshots + 1
    /\ UNCHANGED <<versionsDialog, versionsMap, selectedPreview, saveVersionMessage,
                   serverVersions, operationMessage, listVars, revertVars, notGallery>>

\* previewVersion on a row of the list
previewVersion(j) ==
    /\ versionsDialog.open /\ versionsMap[versionsDialog.avatarId].ok
    /\ j \in 1..Len(versionsMap[versionsDialog.avatarId].value)
    /\ selectedPreview' = Some(versionsMap[versionsDialog.avatarId].value[j])
    /\ UNCHANGED <<versionsDialog, versionsMap, saveVersionMessage, versionCalls,
                   serverVersions, snapshots, operationMessage, listVars, revertVars, notGallery>>

\* closePreview
closePreview ==
    /\ selectedPreview.ok
    /\ selectedPreview' = Null
    /\ UNCHANGED <<versionsDialog, versionsMap, saveVersionMessage, versionCalls,
                   serverVersions, snapshots, operationMessage, listVars, revertVars, notGallery>>

\* the backend answers the request at `j`, or the request fails
VersionServed(j, ok) ==
    /\ j \in 1..Len(versionCalls) /\ ~versionCalls[j].served
    /\ IF ~ok
       THEN /\ versionCalls' = [versionCalls EXCEPT ![j].served = TRUE]
            /\ UNCHANGED serverVersions
       ELSE IF versionCalls[j].kind = "GET"
       THEN /\ versionCalls' = [versionCalls EXCEPT ![j].served = TRUE, ![j].ok = TRUE,
                                                    ![j].data = ListVersions(serverVersions)]
            /\ UNCHANGED serverVersions
       ELSE /\ versionCalls' = [versionCalls EXCEPT ![j].served = TRUE, ![j].ok = TRUE,
                                                    ![j].data = <<CreateVersion(serverVersions)>>]
            /\ serverVersions' = Append(serverVersions, CreateVersion(serverVersions))
    /\ UNCHANGED <<versionsDialog, versionsMap, selectedPreview, saveVersionMessage,
                   snapshots, operationMessage, listVars, revertVars, notGallery>>

\* the answer to the request at `j` arrives: openVersionsDialog or
\* saveSnapshot after its await
VersionSettles(j) ==
    /\ j \in 1..Len(versionCalls) /\ versionCalls[j].served
    /\ versionCalls' = RemoveAt(versionCalls, j)
    /\ LET call_ == versionCalls[j]
       IN  IF call_.kind = "GET"
           THEN IF call_.ok
                THEN /\ versionsMap' = [versionsMap EXCEPT ![call_.avatarId] = Some(call_.data)]
                     /\ UNCHANGED <<saveVersionMessage, operationMessage>>
                ELSE /\ operationMessage' = "Failed to load versions"
                     /\ UNCHANGED <<versionsMap, saveVersionMessage>>
           ELSE IF call_.ok
                THEN /\ versionsMap' =
                          [versionsMap EXCEPT ![call_.avatarId] =
                              Some(PrependVersion(call_.data, @))]
                     /\ saveVersionMessage' = ""
                     /\ operationMessage' = "Version snapshot saved"
                ELSE /\ operationMessage' = "Failed to save version"
                     /\ UNCHANGED <<versionsMap, saveVersionMessage>>
    /\ UNCHANGED <<versionsDialog, selectedPreview, serverVersions, snapshots, listVars,
                   revertVars, notGallery>>

\* ------------------------------------------------ avatar gallery: revert
\* Revert on a row of the version list, or in the preview: revertToVersion
\* up to its POST
revertToVersion(version) ==
    /\ versionsDialog.open /\ versionsMap[versionsDialog.avatarId].ok
    /\ \E j \in 1..Len(versionsMap[versionsDialog.avatarId].value) :
          versionsMap[versionsDialog.avatarId].value[j] = version
    /\ revertCalls' = Append(revertCalls, [avatarId |-> versionsDialog.avatarId,
                                           versionId |-> version, phase |-> "revert"])
    /\ reverts' = reverts + 1
    /\ UNCHANGED <<avatarShown, revertLog, operationMessage, listVars, versionVars,
                   notGallery>>

\* the POST of the revert at `j` settles: the returned avatar replaces the
\* one with its id in the list and the version list is requested again, or
\* the error message is shown
RevertSettles(j, ok) ==
    /\ j \in 1..Len(revertCalls) /\ revertCalls[j].phase = "revert"
    /\ IF ok
       THEN /\ avatarShown' = [avatarShown EXCEPT ![revertCalls[j].avatarId] =
                                                     revertCalls[j].versionId]
            /\ revertCalls' = [revertCalls EXCEPT ![j].phase = "refresh"]
            /\ UNCHANGED <<revertLog, operationMessage>>
       ELSE /\ revertCalls' = RemoveAt(revertCalls, j)
            /\ revertLog' = Append(revertLog, [revert |-> "failed", refresh |-> "none"])
            /\ operationMessage' = "Failed to revert to version"
            /\ UNCHANGED avatarShown
    /\ UNCHANGED <<reverts, listVars, versionVars, notGallery>>

\* a revertToVersion without the inner try: a failed refresh lands in the
\* catch block of the revert
RefreshSettlesNoInnerTry(j, ok) ==
    /\ j \in 1..Len(revertCalls) /\ revertCalls[j].phase = "refresh"
    /\ revertCalls' = RemoveAt(revertCalls, j)
    /\ revertLog' = Append(revertLog, [revert |-> "ok",
                                       refresh |-> IF ok THEN "ok" ELSE "failed"])
    /\ IF ok
       THEN /\ versionsMap' = [versionsMap EXCEPT ![revertCalls[j].avatarId] =
                                                     Some(ListVersions(serverVersions))]
            /\ operationMessage' = "Successfully reverted to selected version"
            /\ selectedPreview' = Null
            /\ versionsDialog' = Closed
            /\ saveVersionMessage' = ""
       ELSE /\ operationMessage' = "Failed to revert to version"
            /\ UNCHANGED <<versionsMap, selectedPreview, versionsDialog, saveVersionMessage>>
    /\ UNCHANGED <<avatarShown, reverts, versionCalls, serverVersions, snapshots,
                   listVars, notGallery>>

\* the GET that follows a revert settles: the version list is replaced or,
\* on failure, left alone; then the success message is shown and the
\* preview and the version dialog are closed
RefreshSettles(j, ok) ==
    /\ j \in 1..Len(revertCalls) /\ revertCalls[j].phase = "refresh"
    /\ revertCalls' = RemoveAt(revertCalls, j)
    /\ revertLog' = Append(revertLog, [revert |-> "ok",
                                       refresh |-> IF ok THEN "ok" ELSE "failed"])
    /\ versionsMap' =
         IF ok THEN [versionsMap EXCEPT ![revertCalls[j].avatarId] =
                                           Some(ListVersions(serverVersions))]
         ELSE versionsMap
    /\ operationMessage' = "Successfully reverted to selected version"
    /\ selectedPreview' = Null
    /\ versionsDialog' = Closed
    /\ saveVersionMessage' = ""
    /\ UNCHANGED <<avatarShown, reverts, versionCalls, serverVersions, snapshots,
                   listVars, notGallery>>

\* --------------------------------- A/B test manager, server-backed: steps
\* handleCreateTest up to its POST
handleCreateTest ==
    /\ abCalls' = Append(abCalls, ABCall("create", "", ""))
    /\ abActions' = abActions + 1
    /\ UNCHANGED <<tests, serverTests, abError, abSuccess, notManager>>

\* Start on the card of a test that is not active: handleStartTest up to
\* its POST
handleStartTestPost(testId) ==
    /\ \E j \in 1..Len(tests) : tests[j].id = testId /\ ~tests[j].is_active
    /\ abCalls' = Append(abCalls, ABCall("start", testId, ""))
    /\ abActions' = abActions + 1
    /\ UNCHANGED <<tests, serverTests, abError, abSuccess, notManager>>

\* Stop on the card of an active test: handleStopTest up to its POST
handleStopTestPost(testId) ==
    /\ \E j \in 1..Len(tests) : tests[j].id = testId /\ tests[j].is_active
    /\ abCalls' = Append(abCalls, ABCall("stop", testId, ""))
    /\ abActions' = abActions + 1
    /\ UNCHANGED <<tests, serverTests, abError, abSuccess, notManager>>

\* the backend handles the request at `j`, or the request fails
ABServed(j, ok) ==
    /\ j \in 1..Len(abCalls) /\ ~abCalls[j].served
    /\ LET c == abCalls[j]
       IN  IF ~ok
           THEN /\ abCalls' = [abCalls EXCEPT ![j].served = TRUE]
                /\ UNCHANGED serverTests
           ELSE IF c.kind = "load"
           THEN /\ abCalls' = [abCalls EXCEPT ![j].served = TRUE, ![j].ok = TRUE,
                                              ![j].data = serverTests]
                /\ UNCHANGED serverTests
           ELSE IF c.kind = "create"
           THEN /\ abCalls' = [abCalls EXCEPT ![j].served = TRUE, ![j].ok = TRUE,
                                              ![j].data = <<CreatedTest>>]
                /\ serverTests' = Append(serverTests, CreatedTest)
           ELSE /\ abCalls' = [abCalls EXCEPT ![j].served = TRUE, ![j].ok = TRUE]
                /\ serverTests' = SetActive(serverTests, c.testId, c.kind = "start")
    /\ UNCHANGED <<tests, abError, abSuccess, abActions, notManager>>

\* the answer to the request at `j` arrives: the handler goes on after its
\* await. A start or stop goes on to loadTests; loadTests sets the list or
\* its own error, and the start or stop that awaited it then sets its
\* success message
ABSettles(j) ==
    /\ j \in 1..Len(abCalls) /\ abCalls[j].served
    /\ LET c == abCalls[j]
       IN  IF c.kind = "load"
           THEN /\ abCalls' = RemoveAt(abCalls, j)
                /\ tests' = IF c.ok THEN c.data ELSE tests
                /\ abError' = IF c.ok THEN abError ELSE "Failed to load A/B tests"
                /\ abSuccess' = IF c.after = "start" THEN "A/B test started"
                                ELSE IF c.after = "stop" THEN "A/B test stopped"
                                ELSE abSuccess
           ELSE IF c.kind = "create"
           THEN /\ abCalls' = RemoveAt(abCalls, j)
                /\ tests' = IF c.ok THEN c.data \o tests ELSE tests
                /\ abError' = IF c.ok THEN abError ELSE "Failed to create A/B test"
                /\ abSuccess' = IF c.ok THEN "A/B test created successfully" ELSE abSuccess
           ELSE IF c.ok
           THEN /\ abCalls' = [abCalls EXCEPT ![j] = ABCall("load", "", c.kind)]
                /\ UNCHANGED <<tests, abError, abSuccess>>
           ELSE /\ abCalls' = RemoveAt(abCalls, j)
                /\ abError' = IF c.kind = "start" THEN "Failed to start A/B test"
                              ELSE "Failed to stop A/B test"
                /\ UNCHANGED <<tests, abSuccess>>
    /\ UNCHANGED <<serverTests, abActions, notManager>>

\* ------------------------------------------------------------------- Next
\* Reconnect runs: the connection life cycle alone, no chat bubbles and no
\* frame the widget only logs.
ReconnectBound == Len(sockets') <= MaxSockets /\ Len(messages') = 0 /\ Len(logged') = 0
                  /\ UNCHANGED notWidget

Next ==
    \/ OnlineEvent /\ ReconnectBound
    \/ OfflineEvent /\ ReconnectBound
    \/ closeChat /\ ReconnectBound
    \/ openChat /\ ReconnectBound
    \/ ReconnectTimerFires /\ ReconnectBound
    \/ \E s \in 1..Len(sockets) : wsOnOpen(s) /\ ReconnectBound
    \/ \E s \in 1..Len(sockets), err \in BOOLEAN : wsOnClose(s, err) /\ ReconnectBound
    \/ \E data \in InboundFrames : wsOnMessage(data) /\ ReconnectBound

Spec == Init /\ [][Next]_vars

\* Outbound runs: connects, disconnects and socket events, with the typing
\* signal and the text messages of the user.
SendBound ==
    /\ Len(sockets') <= MaxPageSockets
    /\ Len(submitted') <= MaxMsgs
    /\ UNCHANGED notWidget

SendNext ==
    \/ OnlineEvent /\ SendBound
    \/ OfflineEvent /\ SendBound
    \/ ReconnectTimerFires /\ SendBound
    \/ \E s \in 1..Len(sockets) : wsOnOpen(s) /\ SendBound
    \/ \E s \in 1..Len(sockets), err \in BOOLEAN : wsOnClose(s, err) /\ SendBound
    \/ \E v \in FieldValues : handleTyping(v) /\ SendBound
    \/ TypingTimeoutFires /\ SendBound
    \/ sendMessage /\ SendBound

SendSpec == Init /\ [][SendNext]_vars

\* File runs: the same connection events, with the attachments of the user.
FileBound ==
    /\ Len(sockets') <= MaxPageSockets
    /\ Len(uploads') <= MaxUploads
    /\ Len(reads') <= MaxReads
    /\ UNCHANGED notWidget

FileNext ==
    \/ OnlineEvent /\ FileBound
    \/ OfflineEvent /\ FileBound
    \/ ReconnectTimerFires /\ FileBound
    \/ \E s \in 1..Len(sockets) : wsOnOpen(s) /\ FileBound
    \/ \E s \in 1..Len(sockets), err \in BOOLEAN : wsOnClose(s, err) /\ FileBound
    \/ \E size \in FileSizes : handleFileUpload(size) /\ FileBound
    \/ \E i \in 1..Len(reads) : FileReadEnds(i) /\ FileBound

FileSpec == Init /\ [][FileNext]_vars

\* History runs: the life cycle, chat bubbles, unload and reload.
HistoryBound ==
    /\ Len(sockets') <= MaxPageSockets
    /\ Len(messages') <= MaxRendered
    /\ loads' <= MaxLoads
    /\ UNCHANGED notWidget

HistoryNext ==
    \/ OnlineEvent /\ HistoryBound
    \/ OfflineEvent /\ HistoryBound
    \/ closeChat /\ HistoryBound
    \/ openChat /\ HistoryBound
    \/ ReconnectTimerFires /\ HistoryBound
    \/ \E s \in 1..Len(sockets) : wsOnOpen(s) /\ HistoryBound
    \/ \E s \in 1..Len(sockets), err \in BOOLEAN : wsOnClose(s, err) /\ HistoryBound
    \/ \E data \in MessageFrames : wsOnMessage(data) /\ HistoryBound
    \/ BeforeUnload /\ HistoryBound
    \/ \E sid \in SessionIds : PageLoad(sid) /\ HistoryBound

HistorySpec == Init /\ [][HistoryNext]_vars

\* Inbound-frame runs: one socket from its creation to its close event, the
\* typing signal and every kind of frame the server can send.
FrameBound ==
    /\ Len(messages') <= MaxRendered
    /\ Len(logged') <= MaxLogged
    /\ Len(submitted') <= MaxTyped
    /\ UNCHANGED notWidget

FrameNext ==
    \/ OfflineEvent /\ FrameBound
    \/ \E s \in 1..Len(sockets) : wsOnOpen(s) /\ FrameBound
    \/ \E s \in 1..Len(sockets), err \in BOOLEAN : wsOnClose(s, err) /\ FrameBound
    \/ \E data \in AllFrames : wsOnMessage(data) /\ FrameBound
    \/ \E v \in FieldValues : handleTyping(v) /\ FrameBound

FrameSpec == Init /\ [][FrameNext]_vars

\* Preview runs: the gallery opens the by-value preview of any avatar and the
\* page decodes it.
PreviewNext ==
    \/ \E avatar \in Avatars : openPreviewWithConfig(avatar)
    \/ \E dataset \in {"", "a1"} : DOMContentLoaded(dataset)
    \/ CloseTab

PreviewSpec == Init /\ [][PreviewNext]_vars

\* Chat runs of the static page: every way of opening it, then requests.
ChatBound == Len(requests') <= MaxRequests

ChatNext ==
    \/ \E avatar \in PreviewAvatars : openPreviewWithConfig(avatar) /\ ChatBound
    \/ previewAvatar("a1") /\ ChatBound
    \/ \E s \in TypedUrls : OpenTypedUrl(s) /\ ChatBound
    \/ \E dataset \in {"", "a1"} : DOMContentLoaded(dataset) /\ ChatBound
    \/ \E text \in {" ", "hi"} : Submit(text) /\ ChatBound
    \/ \E r \in Responses : FetchSettles(r) /\ ChatBound
    \/ \E ok \in BOOLEAN : AudioPlaySettles(ok) /\ ChatBound
    \/ AudioPlayFails /\ ChatBound
    \/ Blur /\ ChatBound

ChatSpec == Init /\ [][ChatNext]_vars

\* Designer runs: the form of a new or a saved avatar, a few edits and a
\* save.
DesignerBound ==
    /\ edits' <= MaxEdits
    /\ saves' <= MaxSaves

DesignerNext ==
    \/ \E r \in {"new", "a1"} : OpenDesigner(r)
    \/ useEffectId
    \/ \E data \in BackendAvatars : loadAvatar(data)
    \/ loadAvatarFails
    \/ \E n \in {"Bob"} : EditName(n) /\ DesignerBound
    \/ \E c \in {"#B"} : PickThemeColor(c) /\ DesignerBound
    \/ ClickAddColor /\ DesignerBound
    \/ \E index \in 1..MaxThemeColors : ClickRemoveColor(index) /\ DesignerBound
    \/ saveAvatar /\ DesignerBound
    \/ \E ok \in BOOLEAN : SaveSettles(ok)

DesignerSpec == Init /\ [][DesignerNext]_vars

\* A/B runs: cards of tests with any metrics, started and stopped.
ABNext ==
    \/ \E test \in ABTests : RenderTest(test)
    \/ handleStartTest
    \/ handleStopTest

ABSpec == Init /\ [][ABNext]_vars

\* Delete runs: the list of the gallery, its delete dialog and clones.
DeleteBound ==
    /\ Len(deleteLog') <= MaxDeletes
    /\ clones' <= MaxClones

DeleteNext ==
    \/ \E ok \in BOOLEAN : loadAvatarsSettles(ok)
    \/ \E id \in {"a1", "a2", CloneId} : ClickDeleteIcon(id) /\ DeleteBound
    \/ closeDeleteDialog
    \/ handleDelete /\ DeleteBound
    \/ \E j \in 1..MaxDeletes + 1, ok \in BOOLEAN : DeleteSettles(j, ok)
    \/ \E id \in {"a1", "a2"} : handleClone(id) /\ DeleteBound
    \/ \E ok \in BOOLEAN : CloneSettles(ok)

DeleteSpec == Init /\ [][DeleteNext]_vars

\* Version runs: the version history dialog of one avatar, without reverts.
VersionBound ==
    /\ Len(versionCalls') <= MaxVersionCalls
    /\ snapshots' <= MaxSnapshots

VersionNext ==
    \/ loadAvatarsSettles(TRUE)
    \/ openVersionsDialog("a1") /\ VersionBound
    \/ closeVersionsDialog
    \/ \E text \in {"m"} : TypeVersionMessage(text)
    \/ saveSnapshot /\ VersionBound
    \/ \E j \in 1..MaxSnapshots + 2 : previewVersion(j)
    \/ closePreview
    \/ \E j \in 1..MaxVersionCalls + 1, ok \in BOOLEAN : VersionServed(j, ok)
    \/ \E j \in 1..MaxVersionCalls + 1 : VersionSettles(j)

VersionSpec == Init /\ [][VersionNext]_vars

\* Revert runs: the version history dialog with reverts.
RevertBound ==
    /\ Len(versionCalls') + Len(revertCalls') <= MaxVersionCalls
    /\ snapshots' <= MaxSnapshots
    /\ reverts' <= MaxReverts

RevertNext ==
    \/ loadAvatarsSettles(TRUE)
    \/ openVersionsDialog("a1") /\ RevertBound
    \/ closeVersionsDialog
    \/ saveSnapshot /\ RevertBound
    \/ \E j \in 1..MaxSnapshots + 2 : previewVersion(j)
    \/ closePreview
    \/ \E j \in 1..MaxVersionCalls + 1 : VersionServed(j, TRUE)
    \/ \E j \in 1..MaxVersionCalls + 1 : VersionSettles(j)
    \/ \E version \in 1..MaxSnapshots + 2 : revertToVersion(version) /\ RevertBound
    \/ \E j \in 1..MaxReverts + 1, ok \in BOOLEAN : RevertSettles(j, ok)
    \/ \E j \in 1..MaxReverts + 1, ok \in BOOLEAN : RefreshSettles(j, ok)

RevertSpec == Init /\ [][RevertNext]_vars

\* Manager runs: the server-backed A/B test manager with creates, starts
\* and stops in flight.
ManagerBound == abActions' <= MaxABActions

ManagerNext ==
    \/ handleCreateTest /\ ManagerBound
    \/ \E testId \in {"t1", "t2"} : handleStartTestPost(testId) /\ ManagerBound
    \/ \E testId \in {"t1", "t2"} : handleStopTestPost(testId) /\ ManagerBound
    \/ \E j \in 1..MaxABActions + 2, ok \in BOOLEAN : ABServed(j, ok)
    \/ \E j \in 1..MaxABActions + 2 : ABSettles(j)

ManagerSpec == Init /\ [][ManagerNext]_vars

\* ---------------------------------------------------------------- claims
ExpectedDelays == <<1000, 2000, 4000, 8000, 16000>>

\* C1: k consecutive close events with no open in between (k <= 5) have
\* scheduled reconnects with the delays 1000, 2000, 4000, 8000, 16000 ms, in
\* that order; when the reconnect of the 5th attempt fails too (the 6th close
\* event) the input is disabled and handleDisconnection schedules nothing more.
C1_BackoffSchedule ==
    /\ closeEvents <= 5 => delays = SubSeq(ExpectedDelays, 1, closeEvents)
    /\ closeEvents > 5 => inputDisabled /\ delays = ExpectedDelays

\* all five attempts failed: six close events, the five delays, no timer left
C1_Witness ==
    /\ closeEvents = 6 /\ inputDisabled
    /\ delays = ExpectedDelays /\ reconnectTimers = 0

\* C4: after an explicit disconnect (closeChat or offline, which leave
\* this.ws null) no socket is opened until openChat or an online event: while
\* this.ws is null the reconnect timer opens none.
C4_StaysDisconnected ==
    [][(ws = 0 /\ Len(sockets') > Len(sockets)) => reconnectTimers' = reconnectTimers]_vars

\* C5: once the input controls are disabled no later event of the page
\* enables them again.
C5_DisabledStays == [][(inputDisabled /\ loaded') => inputDisabled']_vars

\* the input was disabled by conversation_ended while a socket was open; that
\* socket has closed since and a reconnect is pending
C5_Witness ==
    /\ inputDisabled /\ closeEvents \in 1..5 /\ reconnectTimers > 0
    /\ \A s \in 1..Len(sockets) : sockets[s] # "open"

Ids(frames) == {frames[i].id : i \in 1..Len(frames)}

OfType(frames, type) == {i \in 1..Len(frames) : frames[i].type = type}

\* C2: every outbound message the user submits is on the outbound queue or
\* has been handed to the socket; none is dropped.
C2_NothingDropped ==
    \A i \in 1..Len(submitted) : i \in Ids(messageQueue) \cup Ids(sent)

\* C3: frames are handed to the socket in the order of submission: the ids
\* of the frames sent increase.
C3_Fifo ==
    \A i, j \in 1..Len(sent) : i < j => sent[i].id < sent[j].id

\* two messages queued while the socket was not open were flushed when it
\* opened, and a third went out directly afterwards
C3_Witness ==
    /\ Len(sent) = 3
    /\ sent[1].fromQueue /\ sent[2].fromQueue /\ ~sent[3].fromQueue

\* C6: a user who has entered the typing state and then stays idle gets one
\* typing_stop from the idle timer, the only code that sends one without a
\* further input event: in typing state the idle timer is pending.
C6_IdleTimerPending == (Live /\ isTyping) => typingTimeout

Blank(v) == v \in {"", " "}

Emitted(type) ==
    \E i \in (Len(submitted) + 1)..Len(submitted') : submitted'[i].type = type

\* C7, as stated: a change of the field from empty to non-empty hands a
\* typing_start frame to sendToWebSocket, and a change that leaves the field
\* empty in typing state hands it a typing_stop frame.
C7_TypingFramesAsStated ==
    [][/\ (field = "" /\ field' # "") => Emitted("typing_start")
       /\ (field # "" /\ field' = "" /\ isTyping) => Emitted("typing_stop")]_vars

\* C7, amended: empty means empty after trimming.  A change from a blank
\* field to one with content hands a typing_start frame to sendToWebSocket; a
\* change that leaves the field blank in typing state hands it a typing_stop.
C7_TypingFrames ==
    [][/\ (Blank(field) /\ ~Blank(field')) => Emitted("typing_start")
       /\ (field # field' /\ Blank(field') /\ isTyping) => Emitted("typing_stop")]_vars

\* the field was filled and cleared again: a typing_start, then a typing_stop
C7_Witness ==
    /\ Blank(field) /\ ~isTyping /\ Len(submitted) = 2
    /\ submitted[1].type = "typing_start" /\ submitted[2].type = "typing_stop"

Accepted == {i \in 1..Len(uploads) : uploads[i].accepted}

\* C8: a file is turned away exactly when it is larger than 10 * 1024 * 1024
\* bytes; no media_upload frame and no read exists for a larger file; every
\* accepted file has one read in flight or one media_upload frame submitted.
C8_FileGuard ==
    /\ \A i \in 1..Len(uploads) : uploads[i].accepted <=> uploads[i].size <= 10 * 1024 * 1024
    /\ \A i \in OfType(submitted, "media_upload") : submitted[i].size <= 10 * 1024 * 1024
    /\ \A i \in 1..Len(reads) : reads[i] <= 10 * 1024 * 1024
    /\ Cardinality(Accepted) = Len(reads) + Cardinality(OfType(submitted, "media_upload"))

\* a file of 10 MiB + 1 was turned away and one of exactly 10 MiB went out as
\* the only media_upload frame
C8_Witness ==
    /\ \E i \in 1..Len(uploads) : uploads[i].size = 10 * 1024 * 1024 + 1 /\ ~uploads[i].accepted
    /\ \E i \in 1..Len(uploads) : uploads[i].size = 10 * 1024 * 1024 /\ uploads[i].accepted
    /\ Len(sent) = 1 /\ sent[1].type = "media_upload" /\ sent[1].size = 10 * 1024 * 1024
    /\ Len(reads) = 0

\* a call of disconnect(): this.ws dropped, the widget hidden, or the page
\* unloaded
DisconnectCall ==
    \/ ws # 0 /\ ws' = 0
    \/ ~widgetHidden /\ widgetHidden'
    \/ loaded /\ ~loaded'

\* the close event of a socket, on a page that stays
CloseEvent ==
    /\ loaded'
    /\ \E s \in 1..Len(sockets) : sockets[s] # "closed" /\ sockets'[s] = "closed"

\* C9, as stated: every disconnect, a close event from the server or the
\* network included, writes the rendered list under the key of the session.
C9_SavedOnEveryDisconnect ==
    [][(DisconnectCall \/ CloseEvent) => storage'[sessionId] = saveChatHistory(messages)]_vars

\* C9, amended: every call of disconnect() (closeChat, page unload, offline)
\* writes the rendered list under the key of the session.
C9_SavedOnDisconnectCall ==
    [][DisconnectCall => storage'[sessionId] = saveChatHistory(messages)]_vars

\* a rendered bubble has been written by a disconnect() of this page
C9_Witness ==
    /\ loaded /\ ws = 0 /\ Len(messages) > 0
    /\ storage[sessionId] = saveChatHistory(messages)

\* C10: the widget constructed after a reload renders the history the
\* previous instance stored.
C10_ReplayedOnReload ==
    [][(~loaded /\ loaded') => messages' = loadChatHistory(storage[sessionId])]_vars

\* C11: handling an inbound frame of an undocumented type, or one whose
\* payload is not JSON, writes a console line and changes nothing else: the
\* connection state, the reconnect counter and timers, the outbound queue,
\* the typing state, the input enablement, the message list, the status
\* lines and the indicators stay as they were, and the page and its sockets
\* stay as they were, so later frames are handled as before.
C11_IgnoredFramesChangeNothing ==
    [][Len(logged') > Len(logged) =>
        UNCHANGED <<loaded, hung, sessionId, sockets, ws, isConnected, reconnectAttempts,
                    reconnectTimers, messageQueue, sent, isTyping, typingTimeout, field,
                    inputDisabled, widgetHidden, messages, systemMessages,
                    typingIndicator, presenceStatus, storage>>]_vars

\* a connected widget in typing state, with a rendered bubble and an enabled
\* input, has ignored one frame of an unknown type and one unparseable frame
C11_Witness ==
    /\ Len(logged) = 2 /\ logged[1] # logged[2]
    /\ isConnected /\ isTyping /\ ~inputDisabled /\ Len(messages) = 1

\* C12: in both static clients every sendMessage call that ends, whether
\* with a reply, a non-2xx response or a network failure, ends with the input
\* and the send button enabled and the input focused.
C12_ReenabledAndRefocused ==
    [][(call.at # "idle" /\ call'.at = "idle" /\ page' = "ready") =>
        (~staticDisabled' /\ staticFocus')]_vars

Ended(o) == \E i \in 1..Len(outcomes) : outcomes[i] = o

\* three calls of one page have ended, one in each of the three ways, and
\* the input is enabled and focused
C12_Witness ==
    /\ Ended("success") /\ Ended("server_error") /\ Ended("network_failure")
    /\ call.at = "idle" /\ ~staticDisabled /\ staticFocus

\* the five voice fields of the decoded object and the rest of it, for the
\* avatar `a` that was encoded
RoundTrip(a, d) ==
    LET vc == IF "voice_characteristics" \in DOMAIN a THEN a.voice_characteristics ELSE <<>>
    IN  /\ DOMAIN d = DOMAIN a \cup {"voice_characteristics"}
        /\ DOMAIN d.voice_characteristics = {"tone", "accent", "speed", "gender", "pitch"}
        /\ d.voice_characteristics.gender =
              IF "gender" \in DOMAIN vc THEN vc.gender
              ELSE IF "gender" \in DOMAIN a THEN a.gender ELSE "female"
        /\ \A k \in DOMAIN vc : d.voice_characteristics[k] = vc[k]
        /\ \A k \in DOMAIN a \ {"voice_characteristics"} : d[k] = a[k]

\* C13: the config parameter openPreviewWithConfig makes for an avatar is
\* decoded by decodeConfigFromURL to an object whose voice_characteristics has
\* the five fields, with the gender of the source (nested first, top-level
\* next) and "female" only by default when the source has neither, and with
\* every other field of the source as it was.
C13_ConfigRoundTrip ==
    (page = "ready" /\ client = "config" /\ source.ok /\ search.kind = "config") =>
        (AVATAR_CONFIG.ok /\ RoundTrip(source.value, AVATAR_CONFIG.value))

\* an avatar named "AA>" (a '+' in its base64 text) with a top-level gender
\* and a voice section without one has been decoded
C13_Witness ==
    /\ page = "ready" /\ client = "config" /\ source.ok /\ search.kind = "config"
    /\ AVATAR_CONFIG.ok
    /\ source.value.name = <<65, 65, 62>>
    /\ "gender" \in DOMAIN source.value
    /\ "voice_characteristics" \in DOMAIN source.value
    /\ DOMAIN source.value.voice_characteristics = {"pitch"}
    /\ AVATAR_CONFIG.value.voice_characteristics.gender = "male"

\* C14: the requests of a page opened with avatar_id carry that id, those
\* of a page opened with config carry the id of the decoded configuration,
\* and a request has no avatar id only when the page has neither parameter.
C14_BoundAvatar ==
    (page = "ready" /\ client = "config") =>
        \A i \in 1..Len(requests) :
            /\ search.kind = "avatar_id" => requests[i].avatar_id = search.id
            /\ (search.kind = "config" /\ AVATAR_CONFIG.ok) =>
                   requests[i].avatar_id = AVATAR_CONFIG.value.id
            /\ requests[i].avatar_id = "" => search.kind = "none"

\* every section and every field of the template is specified in `a`
Complete(a) ==
    LET T == defaultAvatarTemplate
    IN  /\ DOMAIN T \subseteq DOMAIN a
        /\ \A k \in {"voice_characteristics", "personality_traits", "branding_elements"} :
               DOMAIN T[k] \subseteq DOMAIN a[k]
        /\ DOMAIN T.visual_appearance \subseteq DOMAIN a.visual_appearance
        /\ \A k \in DOMAIN T.visual_appearance :
               DOMAIN T.visual_appearance[k] \subseteq DOMAIN a.visual_appearance[k]

\* C15 as stated: withDefaults leaves a complete Avatar as it was, whatever
\* the length of its animation_behaviors list.
C15_CompleteUntouched ==
    (lastMerge.ok /\ Complete(lastMerge.input)) => lastMerge.output = lastMerge.input

\* C15, amended: withDefaults leaves a complete Avatar with at least one
\* animation behavior as it was.
C15_CompleteNonEmptyUntouched ==
    (lastMerge.ok /\ Complete(lastMerge.input)
        /\ Len(lastMerge.input.animation_behaviors) > 0) =>
        lastMerge.output = lastMerge.input

\* a complete avatar with six animation behaviors, a male voice and four
\* theme colors has gone through withDefaults
C15_Witness ==
    /\ lastMerge.ok /\ Complete(lastMerge.input)
    /\ Len(lastMerge.input.animation_behaviors) = 6
    /\ lastMerge.input.voice_characteristics.gender = "male"
    /\ Len(lastMerge.input.branding_elements.theme_colors) = 4
    /\ lastMerge.output = lastMerge.input

\* C16: in every state of the form, addThemeColor on a list of five colors
\* leaves five colors and sets the inline error, and on a shorter list it
\* appends the picked color last and leaves the colors before it as they
\* were.
C16_AddThemeColor ==
    route # "none" =>
        LET old == avatarData.branding_elements.theme_colors
            r   == addThemeColor(avatarData, newThemeColor, designerError)
            new == r.data.branding_elements.theme_colors
        IN  /\ Len(old) = MaxThemeColors =>
                (Len(new) = MaxThemeColors /\ r.error = "Maximum 5 theme colors allowed")
            /\ Len(old) < MaxThemeColors =>
                (/\ Len(new) = Len(old) + 1
                 /\ new[Len(new)] = newThemeColor
                 /\ SubSeq(new, 1, Len(old)) = old)

\* a fifth color has been added by a click, and the form holds five colors
C16_Witness ==
    /\ route # "none" /\ edits > 0
    /\ Len(avatarData.branding_elements.theme_colors) = MaxThemeColors
    /\ avatarData.branding_elements.theme_colors[MaxThemeColors] = DefaultNewColor

\* C17: the form never holds more than five theme colors, and no payload
\* sent by saveAvatar does.
C17_AtMostFiveColors ==
    /\ Len(avatarData.branding_elements.theme_colors) <= MaxThemeColors
    /\ posted.ok => Len(posted.value.branding_elements.theme_colors) <= MaxThemeColors

\* a loaded avatar got its fifth color by a click and was then saved
C17_Witness ==
    /\ posted.ok /\ posted.method = "PUT" /\ edits > 0
    /\ Len(posted.value.branding_elements.theme_colors) = MaxThemeColors
    /\ posted.value.branding_elements.theme_colors[MaxThemeColors] = DefaultNewColor

\* C18: with no conversations on either side the winner is "No data yet"
\* whatever the satisfaction values; otherwise the side with the strictly
\* higher satisfaction * conversations wins and equal scores give "Tie";
\* 156/162 conversations with satisfaction 4.2/4.5 make B the winner.
C18_WinnerRule ==
    LET m       == abTest.metrics
        score_a == m.satisfaction_a * m.conversations_a
        score_b == m.satisfaction_b * m.conversations_b
    IN  /\ (m.conversations_a = 0 /\ m.conversations_b = 0) => winner = "No data yet"
        /\ ~(m.conversations_a = 0 /\ m.conversations_b = 0) =>
               /\ score_a > score_b => winner = abTest.avatar_a_name
               /\ score_b > score_a => winner = abTest.avatar_b_name
               /\ score_a = score_b => winner = "Tie"
        /\ m = [conversations_a |-> 156, conversations_b |-> 162,
                satisfaction_a |-> 42, satisfaction_b |-> 45] =>
               winner = abTest.avatar_b_name

\* a stopped test with 45/42 conversations and satisfaction 4.2/4.5: the
\* scores are equal and the card shows "Tie"
C18_Witness ==
    /\ abTest.status = "completed"
    /\ abTest.metrics = [conversations_a |-> 45, conversations_b |-> 42,
                         satisfaction_a |-> 42, satisfaction_b |-> 45]
    /\ winner = "Tie"

\* C19: once snapshots of the avatar have been saved and every request has
\* settled, the version list shows the most recently saved snapshot first
\* and the others in reverse order of saving.
C19_NewestFirst ==
    LET entry == versionsMap["a1"]
    IN  (entry.ok /\ versionCalls = << >> /\ Len(serverVersions) > Len(FirstVersions)) =>
            /\ Len(entry.value) > 0
            /\ entry.value[1] = Len(serverVersions)
            /\ \A j \in 1..(Len(entry.value) - 1) : entry.value[j] > entry.value[j + 1]

SeqRange(list) == {list[j] : j \in 1..Len(list)}

\* C20: a DELETE request is issued only while the confirmation dialog is
\* open and only for the avatar the dialog holds; opening, cancelling or
\* dismissing the dialog issues no request and leaves the list as it was;
\* an avatar leaves the list only after a DELETE request for it.
C20_DeleteOnlyOnConfirm ==
    [][ /\ deleteLog' # deleteLog =>
            (/\ deleteDialog.open /\ deleteDialog.avatarId # ""
             /\ deleteLog' = Append(deleteLog, deleteDialog.avatarId))
        /\ (deleteDialog' # deleteDialog /\ deleteCalls' = deleteCalls) =>
            (deleteLog' = deleteLog /\ avatars' = avatars)
        /\ SeqRange(avatars) \ SeqRange(avatars') \subseteq SeqRange(deleteLog)
      ]_vars

\* the dialog was confirmed for "a2" and the request succeeded, while "a1",
\* whose dialog can only have been cancelled, is still listed
C20_Witness ==
    /\ deleteLog = <<"a2">> /\ deleteCalls = << >>
    /\ avatars = <<"a1">>
    /\ deleteDialog = Closed
    /\ operationMessage = "Avatar deleted successfully"

\* C21: when the request of a saveAvatar settles, on the create path and on
\* the update path, a success or an error message is shown and the loading
\* flag is cleared; the flag is set only while a request is in flight.
C21_SaveClearsLoading ==
    [][ /\ (savePending /\ ~savePending') =>
            (/\ ~loading'
             /\ designerSuccess' # "" \/ designerError' # "")
        /\ loading' => (savePending' \/ loadPending')
      ]_vars

\* a create request has failed: the error is shown, the form is still on
\* the create route and is not loading
C21_Witness ==
    /\ route = "new" /\ saves > 0 /\ ~savePending
    /\ designerError = "Failed to save avatar configuration"
    /\ ~loading

\* C29: a load response that arrives after the operator edited form fields
\* leaves the edited fields as the operator set them.
C29_EditsSurviveLoad ==
    [][ (loadPending /\ ~loadPending') =>
            /\ "name" \in dirty => avatarData'.name = avatarData.name
            /\ "theme_colors" \in dirty =>
                   avatarData'.branding_elements.theme_colors
                       = avatarData.branding_elements.theme_colors
      ]_vars

\* C22: when the revert request succeeds the card of the avatar shows the
\* returned configuration, and the success message is shown whether the
\* refresh of the version list succeeds or fails; a failed refresh leaves
\* the cached version lists as they were; when the revert request fails
\* the list and the version map are unchanged and the error is shown.
C22_RevertOutcome ==
    [][ /\ \A j \in 1..Len(revertCalls) :
              (/\ revertCalls[j].phase = "revert"
               /\ Len(revertCalls') = Len(revertCalls)
               /\ revertCalls'[j].phase = "refresh") =>
                  (/\ avatarShown'[revertCalls[j].avatarId] = revertCalls[j].versionId
                   /\ avatars' = avatars)
        /\ Len(revertLog') > Len(revertLog) =>
              LET e == revertLog'[Len(revertLog')]
              IN  /\ e.revert = "failed" =>
                        (/\ avatars' = avatars /\ avatarShown' = avatarShown
                         /\ versionsMap' = versionsMap
                         /\ operationMessage' = "Failed to revert to version")
                  /\ e.revert = "ok" =>
                        operationMessage' = "Successfully reverted to selected version"
                  /\ e.refresh = "failed" => versionsMap' = versionsMap
      ]_vars

\* a revert to version 1 succeeded and its refresh failed: the card shows
\* version 1, the cached list still has the snapshot saved before, and the
\* success message is shown
C22_Witness ==
    /\ Len(revertLog) > 0
    /\ revertLog[Len(revertLog)] = [revert |-> "ok", refresh |-> "failed"]
    /\ avatarShown["a1"] = 1
    /\ versionsMap["a1"].ok /\ Len(versionsMap["a1"].value) = 2
    /\ operationMessage = "Successfully reverted to selected version"
    /\ ~versionsDialog.open

\* C23: once a start or stop has completed successfully and no request is
\* in flight, the tests listed are the tests the server holds, also after
\* runs in which creates and other starts and stops were in flight at the
\* same time.
C23_ListIsServerView ==
    (/\ abCalls = << >> /\ abError = ""
     /\ abSuccess \in {"A/B test started", "A/B test stopped"}) =>
        SeqRange(tests) = SeqRange(serverTests)

\* C24: processMessageQueue terminates in every reachable state: no run of
\* it, the one started by the open handler of a socket that is not the
\* current socket included, goes round its loop for ever.
C24_QueueFlushTerminates == ~hung

\* C25: at most one socket of the widget is CONNECTING or OPEN at any time,
\* under every interleaving of the initial connect, the reconnect timers,
\* the online events and openChat.
C25_OneLiveSocket ==
    Cardinality({s \in 1..Len(sockets) : sockets[s] \in {"connecting", "open"}}) <= 1

\* the typing frames handed to sendToWebSocket, in order
TypingFrames ==
    SelectSeq(submitted, LAMBDA m : m.type \in {"typing_start", "typing_stop"})

\* C26: the typing frames submitted for sending strictly alternate: the
\* first is a typing_start, every typing_start is followed by a typing_stop
\* before the next typing_start, and every typing_stop follows an unmatched
\* typing_start, whatever the input events, idle timeouts and sends.
C26_TypingAlternates ==
    \A i \in 1..Len(TypingFrames) :
        TypingFrames[i].type = IF i % 2 = 1 THEN "typing_start" ELSE "typing_stop"

\* a message was sent while typing: start, the text, then the stop of
\* sendMessage, and the idle timer is cleared
C26_Witness ==
    /\ Len(submitted) = 3
    /\ submitted[1].type = "typing_start"
    /\ submitted[2].type = "text"
    /\ submitted[3].type = "typing_stop"
    /\ ~isTyping /\ ~typingTimeout

\* C27: once every started file read has completed, no upload-progress
\* element remains in the message list, also when a second attachment was
\* selected while the first file was still being read.
C27_ProgressTransient == (Live /\ reads = <<>>) => uploadProgress = 0

\* C28: once a list is cached for the avatar and every request has settled,
\* the cached list contains every version the server holds for it: a
\* snapshot whose save succeeded is not lost to a version-list load that was
\* in flight.
C28_SnapshotKept ==
    LET entry == versionsMap["a1"]
    IN  (entry.ok /\ versionCalls = << >>) =>
            SeqRange(serverVersions) \subseteq SeqRange(entry.value)

\* chat requests started and not yet finished by their sendMessage call
InFlight == Len(requests) - Len(outcomes)

\* C30: in both static clients at most one chat request is in flight at any
\* time, and the input and the send button are disabled for as long as a
\* sendMessage call is running, so that no second call starts before the
\* first has finished.
C30_OneRequestInFlight ==
    /\ InFlight \in {0, 1}
    /\ InFlight = 1 => (staticDisabled /\ call.at # "idle")
    /\ call.at # "idle" => InFlight = 1

\* a second message is on its way after the first call has finished
C30_Witness ==
    /\ Len(requests) = 2 /\ Len(outcomes) = 1
    /\ call.at = "fetch" /\ staticDisabled

====
